---------------------------- MODULE Spec2Model ----------------------------
(***************************************************************************)
(* A model of the resolution and execution core of HyperAgent:             *)
(*   - waitForSettledDOM, the network-quiescence detector                  *)
(*     (src/src/utils/index.ts);                                           *)
(*   - fetchIframeAXTrees / processOOPIFRecursive, the wave-based frame    *)
(*     discovery (src/unnamed/part_015);                                   *)
(*   - runCachedStep / runCachedAttempt, the cached-action replay          *)
(*     (src/unnamed/part_010);                                             *)
(*   - buildBackendIdMaps and buildHierarchicalTree, the EncodedId         *)
(*     producers (src/src/context-providers/a11y-dom).                     *)
(* Each component has its own specification over the shared variables;     *)
(* the variables of the components a specification does not exercise keep  *)
(* their idle values.                                                      *)
(***************************************************************************)
EXTENDS Integers, Sequences, FiniteSets, TLC

(***************************************************************************)
(* Time.  The detector's timers are all multiples of 250 ms; model time is *)
(* counted in ticks of 250 ms since the call of waitForSettledDOM.         *)
(***************************************************************************)
Ticks(ms) == ms \div 250

QuietWindowMs == 500
SweepIntervalMs == 500
StallThresholdMs == 2000
FallbackWaitMs == 1000
DefaultTimeoutMs == 10000

\* The timeoutMs arguments explored: a short one and the default.
TimeoutChoicesMs == {3000, DefaultTimeoutMs}

\* Longest time, in ticks, the model lets page.waitForLoadState take.
MaxLoadWaitTicks == 5

RequestIds == {"r1", "r2"}
FrameIds == {"F"}
NoFrame == "none"
ResourceTypes == {"Document", "XHR", "WebSocket", "EventSource"}
EventNames == {"Network.requestWillBeSent", "Network.loadingFinished",
               "Network.loadingFailed", "Network.requestServedFromCache",
               "Network.responseReceived", "Page.frameStoppedLoading"}

NoTimer == -1

VARIABLES
  pc,                       \* position of the waitForSettledDOM call
  now,                      \* ticks since the call
  timeoutMs,                \* the timeoutMs argument
  session,                  \* the CDP session: none, attached, detached, closed
  failed,                   \* an exception is pending inside the inner try
  handlers,                 \* event names with a handler registered on client
  inflight,                 \* Set<string> of tracked request ids
  meta,                     \* request id -> start tick
  docByFrame,               \* frame id -> request id of its Document request
  quietTimer,               \* deadline of the quiet timer, or NoTimer
  stalledRequestSweepTimer, \* next firing of the sweep interval, or NoTimer
  globalTimeout,            \* deadline of the global timeout, or NoTimer
  waitTimer,                \* deadline of page.waitForTimeout, or NoTimer
  resolvedBy,               \* none, quiet, timeout: what called resolveDone
  resolvedAt,               \* tick of the resolution, or NoTimer
  emptySince,               \* tick at which inflight last became empty
  persistentSkipped         \* a WebSocket or EventSource request was skipped
                            \* since the pending quiet timer was armed

settleVars == <<pc, now, timeoutMs, session, failed, handlers, inflight, meta,
                docByFrame, quietTimer, stalledRequestSweepTimer,
                globalTimeout, waitTimer, resolvedBy, resolvedAt, emptySince,
                persistentSkipped>>

\* Frame discovery (getA11yDOM, fetchIframeAXTrees, processOOPIFRecursive)
VARIABLES
  parentFrame,            \* live frame -> its parentFrame() (0 is the main frame)
  oopif,                  \* live frame -> newCDPSession(frame) succeeds
  extractPc,              \* position of the extraction pass
  frameMapDefined,        \* maps.frameMap is not undefined
  frameMap,               \* maps.frameMap: frame index -> IframeInfo
  nextFrameIndex,         \* nextFrameIndexRef.value
  playwrightFrameToIndex, \* Map<Frame, number>
  processedOOPIFs,        \* Set<Frame>
  currentWave,            \* the frames of the wave being processed
  fpc,                    \* live frame -> position of its processOOPIFRecursive
  parentFrameIdx,         \* live frame -> the local parentFrameIdx
  oopifMaps,              \* live frame -> the frameMap its own walk returned
  indexOf,                \* live frame -> the frame index assigned to it
  overwritten,            \* indices whose frameMap entry another frame replaced
  walkFailed              \* hosts (0 or an OOPIF) whose DOM walk threw

frameVars == <<parentFrame, oopif, extractPc, frameMapDefined, frameMap,
               nextFrameIndex, playwrightFrameToIndex, processedOOPIFs,
               currentWave, fpc, parentFrameIdx, oopifMaps, indexOf,
               overwritten, walkFailed>>

\* Cached-action replay (runCachedStep, runCachedAttempt)
VARIABLES
  cachedAction,    \* the CachedActionInput: actionType and which fields it has
  maxSteps,        \* the maxSteps parameter
  performFallback, \* params.performFallback is configured
  rpc,             \* position of runCachedStep
  attempt,         \* the loop variable
  attemptState,    \* attempt number -> state of that runCachedAttempt promise
  attemptLog,      \* attempt number -> the steps that attempt has completed
  lastError,       \* lastError is not null
  hookCalls,       \* invocations of performFallback
  navigations,     \* calls of page.goto
  domDirty,        \* markDomSnapshotDirty(page) has been called
  result           \* the TaskOutput returned, or NoResult

replayVars == <<cachedAction, maxSteps, performFallback, rpc, attempt,
                attemptState, attemptLog, lastError, hookCalls, navigations,
                domDirty, result>>

\* EncodedId producers (buildBackendIdMaps, buildHierarchicalTree)
VARIABLES
  dom,                  \* the document DOM.getDocument returned
  tpc,                  \* position of the pass: walk, tree, done
  stack,                \* the walk's stack of [node, path]
  seen,                 \* the walk's Set<EncodedId>
  tagNameMap,           \* EncodedId -> lower-cased node name
  xpathMap,             \* EncodedId -> synthesized XPath
  axPos,                \* index of the next AX node of pass 1
  encodedIdAssignments, \* EncodedId -> number of nodes it was assigned to
  nodeMap,              \* AX nodeId -> the EncodedId stored with the node
  errorLog,             \* EncodedIds reported through console.error
  walkRevisits          \* EncodedIds the walk produced a second time

treeVars == <<dom, tpc, stack, seen, tagNameMap, xpathMap, axPos,
              encodedIdAssignments, nodeMap, errorLog, walkRevisits>>

\* mergeTreeResults
VARIABLES
  treeResults,   \* the TreeResult of each frame group: idToElement and xpathMap
  mergePc,       \* position of mergeTreeResults
  mergePos,      \* index of the next result of the for loop
  allElements,   \* Map<EncodedId, AccessibilityNode>
  allXpaths,     \* Record<EncodedId, string>
  mergeFlagged   \* EncodedIds the merge has reported as duplicates

mergeVars == <<treeResults, mergePc, mergePos, allElements, allXpaths,
               mergeFlagged>>

\* buildHierarchicalTree, passes 1 to 4, and cleanStructuralNodes
VARIABLES
  axTree,        \* the converted AX nodes: parentId, role, name, tag name
  cleanPc,       \* position of the builder: build, clean, done
  richNodes,     \* the nodeIds pass 1 stored in nodeMap
  cleanedRoots   \* the cleaned trees of pass 4

cleanVars == <<axTree, cleanPc, richNodes, cleanedRoots>>

\* buildFramePaths (frame ancestry labels)
VARIABLES
  pathsFrameMap,          \* frameMap: frame index -> IframeInfo
  framePath,              \* frameInfo.framePath of each entry, or NoPath
  pathsPc,                \* for, while, build, done
  pathsRemaining,         \* the entries the for-of loop has not visited yet
  pathsFrameIndex,        \* frameIndex of the entry being processed
  currentIdx,             \* the frame the walk up the parent chain is at
  visited,                \* indices seen on this walk
  pathSegments            \* labels collected so far, outermost first

pathsVars == <<pathsFrameMap, framePath, pathsPc, pathsRemaining,
               pathsFrameIndex, currentIdx, visited, pathSegments>>

\* getElementLocator
VARIABLES
  locElementId,           \* elementId: the string the caller passes
  locXpathMap,            \* xpathMap: encoded id -> xpath
  locFrameMap,            \* frameMap: frame index -> IframeInfo
  locPc,                  \* start, lookup, resolve, waitLoad, done
  locTargetFrame,         \* targetFrame: a live frame handle, or Null
  locOutcome,             \* what the call returned or threw, or NoOutcome
  locCalls                \* the calls made on frameMap, page and frames

locVars == <<locElementId, locXpathMap, locFrameMap, locPc, locTargetFrame,
             locOutcome, locCalls>>

\* action dispatch (executePlaywrightMethod and its callers)
VARIABLES
  dispEntry,              \* which dispatcher is called: shared, actElement, aiAction
  method,                 \* the method name
  args,                   \* the argument list
  dispPc,                 \* validate, locate, switch, jsClick, executed, thrown, done
  locatorCalls,           \* the calls made on the element's locator, in order
  pending,                \* the exception in flight, or NoOutcome
  dispOutcome             \* what the dispatcher returned or threw, or NoOutcome

dispVars == <<dispEntry, method, args, dispPc, locatorCalls, pending,
              dispOutcome>>

\* scrollTo (scroll to percentage)
VARIABLES
  scrollEntry,            \* direct: executePlaywrightMethod; cached: via runCachedAttempt
  element,                \* the element: tag, scrollHeight, clientHeight
  scrollTop,              \* where the element (or the window, for html) is scrolled to
  block,                  \* the alignment of the last scrollIntoView, or "none"
  scrollLog               \* the scrollTo calls made: argument, percentage, position after

scrollVars == <<scrollEntry, element, scrollTop, block, scrollLog>>

\* DOM fallback nodes (getA11yDOM step 4, fetchIframeAXTrees, processOOPIFRecursive)
VARIABLES
  fbTagNameMap,           \* maps.tagNameMap: encoded id -> tag name
  fbPc,                   \* main, sameOrigin, oopif, done, rejected
  fbFrameIndex,           \* the frame whose nodes were collected last
  fbFetched,              \* the AX nodes the protocol returned for it
  fbCollected             \* the nodes pushed to allNodes for it

fbVars == <<fbTagNameMap, fbPc, fbFrameIndex, fbFetched, fbCollected>>

\* nextChunk / prevChunk (executePlaywrightMethod)
VARIABLES
  chunkMethod,            \* nextChunk or prevChunk
  chunkElement,           \* tag name, bounding height, viewport height
  chunkPc,                \* scrollBy, waiting, returned
  elScrollTop,            \* el.scrollTop of the element that scrolls
  scrollTarget,           \* where the smooth scroll is heading
  last,                   \* waitForScrollEnd: the previous read
  reads                   \* the two latest reads of el.scrollTop

chunkVars ==
  <<chunkMethod, chunkElement, chunkPc, elScrollTop, scrollTarget, last, reads>>

\* Element finding (findElementWithInstruction, HyperAgent.findElementWithRetry)
VARIABLES
  findEntry,              \* shared (findElementWithInstruction) or agent
  maxRetries,             \* options.maxRetries
  findAttempt,            \* the loop variable `attempt`
  findPc,                 \* attempt, delay, exhausted, returned, threw
  examineLog,             \* what examineDom gave on each attempt so far
  findOutcome             \* the value returned or the error thrown

findVars ==
  <<findEntry, maxRetries, findAttempt, findPc, examineLog, findOutcome>>

\* buildActionCacheEntry next to getElementLocator
VARIABLES
  cacheElementId,         \* action.params.elementId
  cacheXpathMap,          \* domState.xpathMap
  debugXPath,             \* actionOutput.debug.elementMetadata.xpath, or Null
  cachePc,                \* build, locate, done
  entryXPath,             \* the xpath of the ActionCacheEntry
  locatorXPath            \* the xpath getElementLocator returns, or NoXPath

cacheVars ==
  <<cacheElementId, cacheXpathMap, debugXPath, cachePc, entryXPath,
    locatorXPath>>

\* Action registry (HyperAgent.registerAction)
VARIABLES
  actions,                \* this.actions: the types of the registered actions
  registrations,          \* the number of registerAction calls so far
  lastRegistration        \* the type passed to the last call and its outcome

regVars == <<actions, registrations, lastRegistration>>

\* Task control and the agent loop (getTaskControl, runAgentTask)
VARIABLES
  taskStatus,             \* taskState.status
  taskPc,                 \* the await at which runAgentTask is suspended
  currStep,               \* currStep of the loop
  taskMaxSteps,           \* params.maxSteps, 0 when not given
  agentStepActions,       \* agentOutput.actions of the step being run
  actionIdx,              \* index of the action whose awaits are pending
  lastCall                \* the operation that ran last

taskVars == <<taskStatus, taskPc, currStep, taskMaxSteps, agentStepActions,
              actionIdx, lastCall>>

\* Matching live frames to frameMap entries (matchPlaywrightFramesToFrameMap)
VARIABLES
  matchFrameMap,          \* frameMap: frame index -> IframeInfo, without index 0
  allFrames,              \* page.frames(): handle -> its parent and iframe element
  boundFrame,             \* frameInfo.playwrightFrame of each entry, or NoHandle
  matchedPwFrames,        \* the handles matched so far
  matchIdx,               \* the frameMap entry the outer loop is at
  pwIdx,                  \* the handle the inner loop is at
  matchPc                 \* position in matchPlaywrightFramesToFrameMap

matchVars == <<matchFrameMap, allFrames, boundFrame, matchedPwFrames, matchIdx,
               pwIdx, matchPc>>

vars == <<settleVars, frameVars, replayVars, treeVars, mergeVars, cleanVars,
    pathsVars, locVars, dispVars, scrollVars, fbVars, chunkVars, findVars,
    cacheVars, regVars, taskVars, matchVars>>

notSettle == <<frameVars, replayVars, treeVars, mergeVars, cleanVars,
    pathsVars, locVars, dispVars, scrollVars, fbVars, chunkVars, findVars,
    cacheVars, regVars, taskVars, matchVars>>
notFrames == <<settleVars, replayVars, treeVars, mergeVars, cleanVars,
    pathsVars, locVars, dispVars, scrollVars, fbVars, chunkVars, findVars,
    cacheVars, regVars, taskVars, matchVars>>
notReplay == <<settleVars, frameVars, treeVars, mergeVars, cleanVars,
    pathsVars, locVars, dispVars, scrollVars, fbVars, chunkVars, findVars,
    cacheVars, regVars, taskVars, matchVars>>
notTree == <<settleVars, frameVars, replayVars, mergeVars, cleanVars,
    pathsVars, locVars, dispVars, scrollVars, fbVars, chunkVars, findVars,
    cacheVars, regVars, taskVars, matchVars>>
notMerge == <<settleVars, frameVars, replayVars, treeVars, cleanVars,
    pathsVars, locVars, dispVars, scrollVars, fbVars, chunkVars, findVars,
    cacheVars, regVars, taskVars, matchVars>>
notClean == <<settleVars, frameVars, replayVars, treeVars, mergeVars,
    pathsVars, locVars, dispVars, scrollVars, fbVars, chunkVars, findVars,
    cacheVars, regVars, taskVars, matchVars>>
notPaths == <<settleVars, frameVars, replayVars, treeVars, mergeVars,
    cleanVars, locVars, dispVars, scrollVars, fbVars, chunkVars, findVars,
    cacheVars, regVars, taskVars, matchVars>>
notLoc == <<settleVars, frameVars, replayVars, treeVars, mergeVars,
    cleanVars, pathsVars, dispVars, scrollVars, fbVars, chunkVars,
    findVars, cacheVars, regVars, taskVars, matchVars>>
notDisp == <<settleVars, frameVars, replayVars, treeVars, mergeVars,
    cleanVars, pathsVars, locVars, scrollVars, fbVars, chunkVars, findVars,
    cacheVars, regVars, taskVars, matchVars>>
notScroll == <<settleVars, frameVars, replayVars, treeVars, mergeVars,
    cleanVars, pathsVars, locVars, dispVars, fbVars, chunkVars, findVars,
    cacheVars, regVars, taskVars, matchVars>>
notFb == <<settleVars, frameVars, replayVars, treeVars, mergeVars, cleanVars,
    pathsVars, locVars, dispVars, scrollVars, chunkVars, findVars,
    cacheVars, regVars, taskVars, matchVars>>
notChunk == <<settleVars, frameVars, replayVars, treeVars, mergeVars,
    cleanVars, pathsVars, locVars, dispVars, scrollVars, fbVars, findVars,
    cacheVars, regVars, taskVars, matchVars>>
notFind == <<settleVars, frameVars, replayVars, treeVars, mergeVars,
    cleanVars, pathsVars, locVars, dispVars, scrollVars, fbVars, chunkVars,
    cacheVars, regVars, taskVars, matchVars>>
notCache == <<settleVars, frameVars, replayVars, treeVars, mergeVars,
    cleanVars, pathsVars, locVars, dispVars, scrollVars, fbVars, chunkVars,
    findVars, regVars, taskVars, matchVars>>
notReg == <<settleVars, frameVars, replayVars, treeVars, mergeVars,
    cleanVars, pathsVars, locVars, dispVars, scrollVars, fbVars, chunkVars,
    findVars, cacheVars, taskVars, matchVars>>
notTask == <<settleVars, frameVars, replayVars, treeVars, mergeVars,
    cleanVars, pathsVars, locVars, dispVars, scrollVars, fbVars, chunkVars,
    findVars, cacheVars, regVars, matchVars>>
notMatch == <<settleVars, frameVars, replayVars, treeVars, mergeVars,
    cleanVars, pathsVars, locVars, dispVars, scrollVars, fbVars, chunkVars,
    findVars, cacheVars, regVars, taskVars>>

(***************************************************************************)
(* waitForSettledDOM                                                       *)
(***************************************************************************)
SettleInit ==
  /\ pc = "newSession"
  /\ now = 0
  /\ timeoutMs \in TimeoutChoicesMs
  /\ session = "none"
  /\ failed = FALSE
  /\ handlers = {}
  /\ inflight = {}
  /\ meta = << >>
  /\ docByFrame = << >>
  /\ quietTimer = NoTimer
  /\ stalledRequestSweepTimer = NoTimer
  /\ globalTimeout = NoTimer
  /\ waitTimer = NoTimer
  /\ resolvedBy = "none"
  /\ resolvedAt = NoTimer
  /\ emptySince = NoTimer
  /\ persistentSkipped = FALSE

\* A clearQuiet that leaves the timer pending.
clearQuietKeeps(timer) == timer

\* clearQuiet: the value of quietTimer after the call.
clearQuiet(timer) == NoTimer

\* A maybeQuiet that never arms the timer.
maybeQuietNever(set, timer) == timer

\* maybeQuiet: the value of quietTimer after the call, given the in-flight
\* set and the timer before it.
maybeQuiet(set, timer) ==
  IF set = {} /\ timer = NoTimer THEN now + Ticks(QuietWindowMs) ELSE timer

\* The tick at which the set `set` (the new value of inflight) last became
\* empty; NoTimer while it is not empty.
EmptySinceAfter(set) ==
  IF set # {} THEN NoTimer
  ELSE IF inflight = {} THEN emptySince ELSE now

Restrict(f, S) == [x \in S |-> f[x]]

timerVars == <<stalledRequestSweepTimer, globalTimeout, waitTimer>>
callVars == <<pc, now, timeoutMs, session, failed, handlers, resolvedBy, resolvedAt>>

\* const client = await page.context().newCDPSession(page)
NewCDPSession ==
  /\ pc = "newSession"
  /\ \/ /\ session' = "attached"
        /\ pc' = "title"
        /\ UNCHANGED waitTimer
     \/ /\ pc' = "fallbackWait"
        /\ waitTimer' = now + Ticks(FallbackWaitMs)
        /\ UNCHANGED session
  /\ UNCHANGED <<now, timeoutMs, failed, handlers, inflight, meta, docByFrame,
                 quietTimer, stalledRequestSweepTimer, globalTimeout,
                 resolvedBy, resolvedAt, emptySince>>
  /\ UNCHANGED <<persistentSkipped, notSettle>>

\* const hasDoc = !!(await page.title().catch(() => false))
CheckDocument ==
  /\ pc = "title"
  /\ \E hasDoc \in BOOLEAN : pc' = IF hasDoc THEN "enable" ELSE "loadState"
  /\ UNCHANGED <<now, timeoutMs, session, failed, handlers, inflight, meta,
                 docByFrame, quietTimer, timerVars, resolvedBy, resolvedAt,
                 emptySince>>
  /\ UNCHANGED <<persistentSkipped, notSettle>>

\* await page.waitForLoadState("domcontentloaded"): returns when the page
\* gets there, or throws; no timeout is passed, so the wait is as long as the
\* page (or the driver's own default) makes it.
WaitForLoadState ==
  /\ pc = "loadState"
  /\ \/ pc' = "enable" /\ UNCHANGED failed
     \/ pc' = "detach" /\ failed' = TRUE
  /\ UNCHANGED <<now, timeoutMs, session, handlers, inflight, meta,
                 docByFrame, quietTimer, timerVars, resolvedBy, resolvedAt,
                 emptySince>>
  /\ UNCHANGED <<persistentSkipped, notSettle>>

\* Network.enable, Page.enable, Target.setAutoAttach
EnableDomains ==
  /\ pc = "enable"
  /\ \/ pc' = "executor" /\ UNCHANGED failed
     \/ pc' = "detach" /\ failed' = TRUE
  /\ UNCHANGED <<now, timeoutMs, session, handlers, inflight, meta,
                 docByFrame, quietTimer, timerVars, resolvedBy, resolvedAt,
                 emptySince>>
  /\ UNCHANGED <<persistentSkipped, notSettle>>

\* The promise executor: arms the global timeout and the sweep interval,
\* registers the six handlers and starts the quiet check.
StartWatching ==
  /\ pc = "executor"
  /\ globalTimeout' = now + Ticks(timeoutMs)
  /\ stalledRequestSweepTimer' = now + Ticks(SweepIntervalMs)
  /\ handlers' = EventNames
  /\ quietTimer' = maybeQuiet(inflight, quietTimer)
  /\ emptySince' = now
  /\ pc' = "waiting"
  /\ UNCHANGED <<now, timeoutMs, session, failed, inflight, meta, docByFrame,
                 waitTimer, resolvedBy, resolvedAt>>
  /\ UNCHANGED <<persistentSkipped, notSettle>>

\* A type test that skips nothing.
IsPersistentNone(type) == FALSE

\* params.type === "WebSocket" || params.type === "EventSource"
IsPersistent(type) == type \in {"WebSocket", "EventSource"}

\* onRequestWillBeSent
OnRequestWillBeSent(id, type, frameId) ==
  /\ pc = "waiting"
  /\ "Network.requestWillBeSent" \in handlers
  /\ IF IsPersistent(type)
     THEN /\ persistentSkipped' = (persistentSkipped \/ quietTimer # NoTimer)
          /\ UNCHANGED <<inflight, meta, docByFrame, quietTimer, emptySince>>
     ELSE /\ persistentSkipped' = FALSE
          /\ inflight' = inflight \cup {id}
          /\ meta' = [x \in (DOMAIN meta) \cup {id} |->
                        IF x = id THEN now ELSE meta[x]]
          /\ docByFrame' =
               IF type = "Document" /\ frameId # NoFrame
               THEN [f \in (DOMAIN docByFrame) \cup {frameId} |->
                       IF f = frameId THEN id ELSE docByFrame[f]]
               ELSE docByFrame
          /\ quietTimer' = clearQuiet(quietTimer)
          /\ emptySince' = EmptySinceAfter(inflight \cup {id})
  /\ UNCHANGED <<callVars, timerVars>>
  /\ UNCHANGED notSettle

\* finishReq
finishReq(id) ==
  IF id \notin inflight
  THEN UNCHANGED <<inflight, meta, docByFrame, quietTimer, emptySince>>
  ELSE /\ inflight' = inflight \ {id}
       /\ meta' = Restrict(meta, (DOMAIN meta) \ {id})
       /\ docByFrame' =
            Restrict(docByFrame, {f \in DOMAIN docByFrame : docByFrame[f] # id})
       /\ quietTimer' = maybeQuiet(inflight \ {id}, clearQuiet(quietTimer))
       /\ emptySince' = EmptySinceAfter(inflight \ {id})

OnLoadingFinished(id) ==
  /\ pc = "waiting"
  /\ "Network.loadingFinished" \in handlers
  /\ finishReq(id)
  /\ UNCHANGED <<callVars, timerVars>>
  /\ UNCHANGED <<persistentSkipped, notSettle>>

OnLoadingFailed(id) ==
  /\ pc = "waiting"
  /\ "Network.loadingFailed" \in handlers
  /\ finishReq(id)
  /\ UNCHANGED <<callVars, timerVars>>
  /\ UNCHANGED <<persistentSkipped, notSettle>>

OnRequestServedFromCache(id) ==
  /\ pc = "waiting"
  /\ "Network.requestServedFromCache" \in handlers
  /\ finishReq(id)
  /\ UNCHANGED <<callVars, timerVars>>
  /\ UNCHANGED <<persistentSkipped, notSettle>>

\* onResponseReceived: only data: URLs finish here.
OnResponseReceived(id, isDataUrl) ==
  /\ pc = "waiting"
  /\ "Network.responseReceived" \in handlers
  /\ IF isDataUrl
     THEN finishReq(id)
     ELSE UNCHANGED <<inflight, meta, docByFrame, quietTimer, emptySince>>
  /\ UNCHANGED <<callVars, timerVars>>
  /\ UNCHANGED <<persistentSkipped, notSettle>>

OnFrameStoppedLoading(frameId) ==
  /\ pc = "waiting"
  /\ "Page.frameStoppedLoading" \in handlers
  /\ IF frameId \in DOMAIN docByFrame
     THEN finishReq(docByFrame[frameId])
     ELSE UNCHANGED <<inflight, meta, docByFrame, quietTimer, emptySince>>
  /\ UNCHANGED <<callVars, timerVars>>
  /\ UNCHANGED <<persistentSkipped, notSettle>>

\* A resolveDone whose cleanup forgets the sweep interval and one handler.
resolveDoneLeaky(cause) ==
  /\ quietTimer' = NoTimer
  /\ globalTimeout' = NoTimer
  /\ handlers' = {"Page.frameStoppedLoading"}
  /\ resolvedBy' = cause
  /\ resolvedAt' = now
  /\ pc' = "detach"
  /\ UNCHANGED <<now, timeoutMs, session, failed, inflight, meta, docByFrame,
                 stalledRequestSweepTimer, waitTimer, emptySince>>

\* cleanup followed by resolve: every timer cleared, every handler removed.
resolveDone(cause) ==
  /\ quietTimer' = NoTimer
  /\ globalTimeout' = NoTimer
  /\ stalledRequestSweepTimer' = NoTimer
  /\ handlers' = {}
  /\ resolvedBy' = cause
  /\ resolvedAt' = now
  /\ pc' = "detach"
  /\ UNCHANGED <<now, timeoutMs, session, failed, inflight, meta, docByFrame,
                 waitTimer, emptySince>>

QuietTimerFires ==
  /\ pc = "waiting"
  /\ quietTimer # NoTimer
  /\ now >= quietTimer
  /\ resolveDone("quiet")
  /\ UNCHANGED <<persistentSkipped, notSettle>>

GlobalTimeoutFires ==
  /\ pc = "waiting"
  /\ globalTimeout # NoTimer
  /\ now >= globalTimeout
  /\ resolveDone("timeout")
  /\ UNCHANGED <<persistentSkipped, notSettle>>

\* A sweep that completes nothing.
StalledNone == {}

\* The requests the sweep force-completes.
Stalled == {id \in DOMAIN meta : now - meta[id] > Ticks(StallThresholdMs)}

StalledRequestSweep ==
  /\ pc = "waiting"
  /\ stalledRequestSweepTimer # NoTimer
  /\ now >= stalledRequestSweepTimer
  /\ inflight' = inflight \ Stalled
  /\ meta' = Restrict(meta, (DOMAIN meta) \ Stalled)
  /\ quietTimer' = maybeQuiet(inflight \ Stalled, quietTimer)
  /\ emptySince' = EmptySinceAfter(inflight \ Stalled)
  /\ stalledRequestSweepTimer' =
       stalledRequestSweepTimer + Ticks(SweepIntervalMs)
  /\ UNCHANGED <<callVars, docByFrame, globalTimeout, waitTimer>>
  /\ UNCHANGED <<persistentSkipped, notSettle>>

\* finally { await client.detach() }; a pending exception, or one thrown by
\* detach itself (the session is already closed), goes to the catch block.
Detach ==
  /\ pc = "detach"
  /\ \/ /\ session' = "detached"
        /\ IF failed
           THEN pc' = "fallbackWait" /\ waitTimer' = now + Ticks(FallbackWaitMs)
           ELSE pc' = "returned" /\ UNCHANGED waitTimer
     \/ /\ session' = "closed"
        /\ pc' = "fallbackWait"
        /\ waitTimer' = now + Ticks(FallbackWaitMs)
  /\ failed' = FALSE
  /\ UNCHANGED <<now, timeoutMs, handlers, inflight, meta, docByFrame,
                 quietTimer, stalledRequestSweepTimer, globalTimeout,
                 resolvedBy, resolvedAt, emptySince>>
  /\ UNCHANGED <<persistentSkipped, notSettle>>

\* catch: await page.waitForTimeout(1000)
FallbackWaitDone ==
  /\ pc = "fallbackWait"
  /\ now >= waitTimer
  /\ waitTimer' = NoTimer
  /\ pc' = "returned"
  /\ UNCHANGED <<now, timeoutMs, session, failed, handlers, inflight, meta,
                 docByFrame, quietTimer, stalledRequestSweepTimer,
                 globalTimeout, resolvedBy, resolvedAt, emptySince>>
  /\ UNCHANGED <<persistentSkipped, notSettle>>

\* page.waitForTimeout rejects (the page is closed): nothing catches it
\* inside the catch block.
FallbackWaitRejected ==
  /\ pc = "fallbackWait"
  /\ waitTimer' = NoTimer
  /\ pc' = "threw"
  /\ UNCHANGED <<now, timeoutMs, session, failed, handlers, inflight, meta,
                 docByFrame, quietTimer, stalledRequestSweepTimer,
                 globalTimeout, resolvedBy, resolvedAt, emptySince>>
  /\ UNCHANGED <<persistentSkipped, notSettle>>

Due(timer) == timer # NoTimer /\ now >= timer

\* Time passes only while the call waits, and a due timer fires before it
\* passes further.
Tick ==
  /\ pc \in {"loadState", "waiting", "fallbackWait"}
  /\ pc = "loadState" => now < MaxLoadWaitTicks
  /\ ~Due(quietTimer) /\ ~Due(globalTimeout)
  /\ ~Due(stalledRequestSweepTimer) /\ ~Due(waitTimer)
  /\ now' = now + 1
  /\ UNCHANGED <<pc, timeoutMs, session, failed, handlers, inflight, meta,
                 docByFrame, quietTimer, timerVars, resolvedBy, resolvedAt,
                 emptySince>>
  /\ UNCHANGED <<persistentSkipped, notSettle>>

SettleNext ==
  \/ NewCDPSession
  \/ CheckDocument
  \/ WaitForLoadState
  \/ EnableDomains
  \/ StartWatching
  \/ \E id \in RequestIds, type \in ResourceTypes, f \in FrameIds \cup {NoFrame} :
       OnRequestWillBeSent(id, type, f)
  \/ \E id \in RequestIds : OnLoadingFinished(id)
  \/ \E id \in RequestIds : OnLoadingFailed(id)
  \/ \E id \in RequestIds : OnRequestServedFromCache(id)
  \/ \E id \in RequestIds, isDataUrl \in BOOLEAN : OnResponseReceived(id, isDataUrl)
  \/ \E f \in FrameIds : OnFrameStoppedLoading(f)
  \/ QuietTimerFires
  \/ GlobalTimeoutFires
  \/ StalledRequestSweep
  \/ Detach
  \/ FallbackWaitDone
  \/ FallbackWaitRejected
  \/ Tick

(***************************************************************************)
(* Frame graph discovery                                                   *)
(***************************************************************************)

\* Number of live child frames of the page.
NumFrames == 3

Frames == 1..NumFrames
MainFrame == 0
Null == -1

\* The frame trees explored: every frame's parent is the main frame or a
\* frame listed before it.
FrameTrees == {p \in [Frames -> 0..NumFrames] : \A f \in Frames : p[f] < f}

FramesIdle ==
  /\ parentFrame = [f \in Frames |-> MainFrame]
  /\ oopif = [f \in Frames |-> FALSE]
  /\ extractPc = "idle"
  /\ frameMapDefined = FALSE
  /\ frameMap = << >>
  /\ nextFrameIndex = 0
  /\ playwrightFrameToIndex = << >>
  /\ processedOOPIFs = {}
  /\ currentWave = {}
  /\ fpc = [f \in Frames |-> "idle"]
  /\ parentFrameIdx = [f \in Frames |-> Null]
  /\ oopifMaps = [f \in Frames |-> << >>]
  /\ indexOf = [f \in Frames |-> Null]
  /\ overwritten = {}
  /\ walkFailed = {}

FramesInit ==
  /\ parentFrame \in FrameTrees
  /\ oopif \in [Frames -> BOOLEAN]
  /\ extractPc = "walk"
  /\ frameMapDefined = FALSE
  /\ frameMap = << >>
  /\ nextFrameIndex = 0
  /\ playwrightFrameToIndex = << >>
  /\ processedOOPIFs = {}
  /\ currentWave = {}
  /\ fpc = [f \in Frames |-> "idle"]
  /\ parentFrameIdx = [f \in Frames |-> Null]
  /\ oopifMaps = [f \in Frames |-> << >>]
  /\ indexOf = [f \in Frames |-> Null]
  /\ overwritten = {}
  /\ walkFailed = {}

Children(f) == {c \in Frames : parentFrame[c] = f}

SortedSeq(S) ==
  CHOOSE q \in [1..Cardinality(S) -> S] :
    \A i, j \in 1..Cardinality(S) : i < j => q[i] < q[j]

\* The same-origin frames a DOM walk meets below the frames `kids`, in
\* document order: a walk pierces same-origin content documents and stops at
\* out-of-process ones.
RECURSIVE WalkOrderFrom(_)
WalkOrderFrom(kids) ==
  IF kids = << >> THEN << >>
  ELSE LET c == Head(kids) IN
       (IF oopif[c] THEN << >>
        ELSE <<c>> \o WalkOrderFrom(SortedSeq(Children(c))))
       \o WalkOrderFrom(Tail(kids))

WalkOrder(host) == WalkOrderFrom(SortedSeq(Children(host)))

Pos(q, x) == CHOOSE i \in 1..Len(q) : q[i] = x

\* The frameMap buildBackendIdMaps(session, k) returns for the document of
\* `host`: the same-origin frames below it get the indices after k.
walkFrameMap(host, k) ==
  LET order == WalkOrder(host) IN
  [i \in {k + j : j \in 1..Len(order)} |->
     [frame |-> order[i - k],
      parentFrameIndex |->
        IF parentFrame[order[i - k]] = host THEN k
        ELSE k + Pos(order, parentFrame[order[i - k]]),
      playwrightFrame |-> FALSE]]

\* indexOf after the walk result `m` has numbered its frames.
IndexedBy(m) ==
  [f \in Frames |->
     IF \E i \in DOMAIN m : m[i].frame = f
     THEN CHOOSE i \in DOMAIN m : m[i].frame = f
     ELSE indexOf[f]]

\* getA11yDOM, step 3: buildBackendIdMaps(client, 0).  A protocol error is
\* caught inside the walk, which then returns maps without a frameMap.
DomWalk ==
  /\ extractPc = "walk"
  /\ \/ /\ frameMapDefined' = TRUE
        /\ frameMap' = walkFrameMap(MainFrame, 0)
        /\ indexOf' = IndexedBy(walkFrameMap(MainFrame, 0))
        /\ UNCHANGED walkFailed
     \/ /\ frameMapDefined' = FALSE
        /\ walkFailed' = walkFailed \cup {MainFrame}
        /\ UNCHANGED <<frameMap, indexOf>>
  /\ extractPc' = "fetch"
  /\ UNCHANGED <<parentFrame, oopif, nextFrameIndex, playwrightFrameToIndex,
                 processedOOPIFs, currentWave, fpc, parentFrameIdx, oopifMaps,
                 overwritten>>
  /\ UNCHANGED notFrames

\* Promise.all(currentWave.map(frame => processOOPIFRecursive(frame, ...))):
\* every frame of the wave runs to its first await.
StartedWave(wave) ==
  [f \in Frames |->
     IF f \in wave
     THEN (IF f \in processedOOPIFs THEN "done" ELSE "attaching")
     ELSE fpc[f]]

\* fetchIframeAXTrees up to the first wave.  (Its step 1 fetches the AX
\* nodes of the frames the walk found and leaves the frame graph alone.)
BeginWaves ==
  /\ extractPc = "fetch"
  /\ nextFrameIndex' = Cardinality(DOMAIN frameMap) + 1
  /\ currentWave' = Children(MainFrame)
  /\ fpc' = StartedWave(Children(MainFrame))
  /\ extractPc' = IF Children(MainFrame) = {} THEN "returned" ELSE "waves"
  /\ UNCHANGED <<parentFrame, oopif, frameMapDefined, frameMap,
                 playwrightFrameToIndex, processedOOPIFs, parentFrameIdx,
                 oopifMaps, indexOf, overwritten, walkFailed>>
  /\ UNCHANGED notFrames

\* processOOPIFRecursive after newCDPSession(frame): a frame that cannot be
\* attached is skipped; an attached one takes the next index and looks its
\* parent up in playwrightFrameToIndex.
AttachOOPIF(f) ==
  /\ fpc[f] = "attaching"
  /\ IF ~oopif[f]
     THEN /\ fpc' = [fpc EXCEPT ![f] = "done"]
          /\ UNCHANGED <<nextFrameIndex, playwrightFrameToIndex,
                         parentFrameIdx, indexOf>>
     ELSE /\ nextFrameIndex' = nextFrameIndex + 1
          /\ playwrightFrameToIndex' =
               [g \in (DOMAIN playwrightFrameToIndex) \cup {f} |->
                  IF g = f THEN nextFrameIndex ELSE playwrightFrameToIndex[g]]
          /\ parentFrameIdx' =
               [parentFrameIdx EXCEPT ![f] =
                  IF parentFrame[f] \in DOMAIN playwrightFrameToIndex
                  THEN playwrightFrameToIndex[parentFrame[f]]
                  ELSE Null]
          /\ indexOf' = [indexOf EXCEPT ![f] = nextFrameIndex]
          /\ fpc' = [fpc EXCEPT ![f] = "building"]
  /\ UNCHANGED <<parentFrame, oopif, extractPc, frameMapDefined, frameMap,
                 processedOOPIFs, currentWave, oopifMaps, overwritten,
                 walkFailed>>
  /\ UNCHANGED notFrames

\* DOM.enable, Accessibility.enable and buildBackendIdMaps(oopifSession,
\* iframeFrameIndex): the walk numbers the nested same-origin frames, or
\* catches a protocol error and returns empty maps; a failing enable throws.
BuildOOPIFMaps(f) ==
  /\ fpc[f] = "building"
  /\ \/ /\ oopifMaps' = [oopifMaps EXCEPT ![f] = walkFrameMap(f, indexOf[f])]
        /\ indexOf' = IndexedBy(walkFrameMap(f, indexOf[f]))
        /\ fpc' = [fpc EXCEPT ![f] = "fetching"]
        /\ UNCHANGED walkFailed
     \/ /\ walkFailed' = walkFailed \cup {f}
        /\ fpc' = [fpc EXCEPT ![f] = "fetching"]
        /\ UNCHANGED <<oopifMaps, indexOf>>
     \/ /\ fpc' = [fpc EXCEPT ![f] = "detachingErr"]
        /\ UNCHANGED <<oopifMaps, indexOf, walkFailed>>
  /\ UNCHANGED <<parentFrame, oopif, extractPc, frameMapDefined, frameMap,
                 nextFrameIndex, playwrightFrameToIndex, processedOOPIFs,
                 currentWave, parentFrameIdx, overwritten>>
  /\ UNCHANGED notFrames

\* The entry processOOPIFRecursive stores for the frame itself.
OOPIFInfo(f) ==
  [frame |-> f, parentFrameIndex |-> parentFrameIdx[f], playwrightFrame |-> TRUE]

\* maps.frameMap after the sets of processOOPIFRecursive: the frame's own
\* entry, then the nested entries of its walk.
MergedFrameMap(f) ==
  LET own == playwrightFrameToIndex[f]
      nested == oopifMaps[f] IN
  [i \in (DOMAIN frameMap) \cup {own} \cup DOMAIN nested |->
     IF i \in DOMAIN nested THEN nested[i]
     ELSE IF i = own THEN OOPIFInfo(f)
     ELSE frameMap[i]]

\* The indices at which those sets replace the entry of another frame.
Replaced(f) ==
  {i \in DOMAIN frameMap : frameMap[i].frame # MergedFrameMap(f)[i].frame}

\* Accessibility.getFullAXTree, then the synchronous tail: the frame's entry
\* and the nested entries are stored and the frame is marked processed.  A
\* failing fetch throws.
FetchOOPIFTree(f) ==
  /\ fpc[f] = "fetching"
  /\ \/ /\ IF frameMapDefined
           THEN /\ frameMap' = MergedFrameMap(f)
                /\ overwritten' = overwritten \cup Replaced(f)
           ELSE UNCHANGED <<frameMap, overwritten>>
        /\ processedOOPIFs' = processedOOPIFs \cup {f}
        /\ fpc' = [fpc EXCEPT ![f] = "detaching"]
     \/ /\ fpc' = [fpc EXCEPT ![f] = "detachingErr"]
        /\ UNCHANGED <<frameMap, overwritten, processedOOPIFs>>
  /\ UNCHANGED <<parentFrame, oopif, extractPc, frameMapDefined,
                 nextFrameIndex, playwrightFrameToIndex, currentWave,
                 parentFrameIdx, oopifMaps, indexOf, walkFailed>>
  /\ UNCHANGED notFrames

\* finally { await oopifSession.detach() }
DetachOOPIF(f) ==
  /\ fpc[f] \in {"detaching", "detachingErr"}
  /\ fpc' = [fpc EXCEPT ![f] = IF fpc[f] = "detaching" THEN "done" ELSE "failed"]
  /\ UNCHANGED <<parentFrame, oopif, extractPc, frameMapDefined, frameMap,
                 nextFrameIndex, playwrightFrameToIndex, processedOOPIFs,
                 currentWave, parentFrameIdx, oopifMaps, indexOf, overwritten,
                 walkFailed>>
  /\ UNCHANGED notFrames

\* A wave test that lets the loop go on once any frame of the wave is done.
WaveSettledEager(wave) == \E f \in wave : fpc[f] = "done"

\* await Promise.all(...) resolves: every frame of the wave has returned.
WaveSettled(wave) == \A f \in wave : fpc[f] = "done"

\* The while loop: the children of the wave's frames form the next wave.
NextWave ==
  /\ extractPc = "waves"
  /\ WaveSettled(currentWave)
  /\ LET nextWave == UNION {Children(f) : f \in currentWave} IN
     /\ currentWave' = nextWave
     /\ fpc' = StartedWave(nextWave)
     /\ extractPc' = IF nextWave = {} THEN "returned" ELSE "waves"
  /\ UNCHANGED <<parentFrame, oopif, frameMapDefined, frameMap,
                 nextFrameIndex, playwrightFrameToIndex, processedOOPIFs,
                 parentFrameIdx, oopifMaps, indexOf, overwritten, walkFailed>>
  /\ UNCHANGED notFrames

\* Promise.all rejects with the first frame that threw; nothing in
\* fetchIframeAXTrees catches it, and the frames still running go on.
WaveRejected ==
  /\ extractPc = "waves"
  /\ \E f \in currentWave : fpc[f] = "failed"
  /\ extractPc' = "rejected"
  /\ UNCHANGED <<parentFrame, oopif, frameMapDefined, frameMap,
                 nextFrameIndex, playwrightFrameToIndex, processedOOPIFs,
                 currentWave, fpc, parentFrameIdx, oopifMaps, indexOf,
                 overwritten, walkFailed>>
  /\ UNCHANGED notFrames

FramesNext ==
  \/ DomWalk
  \/ BeginWaves
  \/ \E f \in Frames : AttachOOPIF(f)
  \/ \E f \in Frames : BuildOOPIFMaps(f)
  \/ \E f \in Frames : FetchOOPIFTree(f)
  \/ \E f \in Frames : DetachOOPIF(f)
  \/ NextWave
  \/ WaveRejected

(***************************************************************************)
(* Cached-action replay                                                    *)
(***************************************************************************)

DefaultMaxSteps == 3

\* Largest maxSteps argument explored.
MaxStepsLimit == 3

Attempts == 1..(MaxStepsLimit + 1)
TaskStatuses == {"pending", "running", "paused", "cancelled", "completed", "failed"}
ActionTypes == {"goToUrl", "complete", "actElement", "extract"}

NoResult == [status |-> "none", meta |-> FALSE, fallbackUsed |-> FALSE, retries |-> 0]

ReplayIdle ==
  /\ cachedAction = [actionType |-> "complete", url |-> FALSE, xpath |-> FALSE,
                     method |-> FALSE]
  /\ maxSteps = DefaultMaxSteps
  /\ performFallback = FALSE
  /\ rpc = "idle"
  /\ attempt = 0
  /\ attemptState = [i \in Attempts |-> "none"]
  /\ attemptLog = [i \in Attempts |-> << >>]
  /\ lastError = FALSE
  /\ hookCalls = 0
  /\ navigations = 0
  /\ domDirty = FALSE
  /\ result = NoResult

ReplayInit ==
  /\ cachedAction \in [actionType : ActionTypes, url : BOOLEAN, xpath : BOOLEAN,
                       method : BOOLEAN]
  /\ maxSteps \in 0..MaxStepsLimit
  /\ performFallback \in BOOLEAN
  /\ rpc = "start"
  /\ attempt = 0
  /\ attemptState = [i \in Attempts |-> "none"]
  /\ attemptLog = [i \in Attempts |-> << >>]
  /\ lastError = FALSE
  /\ hookCalls = 0
  /\ navigations = 0
  /\ domDirty = FALSE
  /\ result = NoResult

\* The replayStepMeta of a result produced from the cache.
CachedResult(status, retries) ==
  [status |-> status, meta |-> TRUE, fallbackUsed |-> FALSE, retries |-> retries]

\* A result without replayStepMeta.
BareResult(status) ==
  [status |-> status, meta |-> FALSE, fallbackUsed |-> FALSE, retries |-> 0]

\* runCachedStep, the entry checks: goToUrl without a URL and entries that
\* are no complete actElement return at once; "complete" is a no-op.
EnterCachedStep ==
  /\ rpc = "start"
  /\ IF cachedAction.actionType = "goToUrl"
     THEN IF ~cachedAction.url
          THEN rpc' = "returned" /\ result' = BareResult("failed")
          ELSE rpc' = "goto" /\ UNCHANGED result
     ELSE IF cachedAction.actionType = "complete"
     THEN rpc' = "returned" /\ result' = CachedResult("completed", 1)
     ELSE IF \/ cachedAction.actionType # "actElement"
             \/ ~cachedAction.xpath
             \/ ~cachedAction.method
     THEN rpc' = "returned" /\ result' = BareResult("failed")
     ELSE rpc' = "loop" /\ UNCHANGED result
  /\ UNCHANGED <<cachedAction, maxSteps, performFallback, attempt,
                 attemptState, attemptLog, lastError, hookCalls, navigations,
                 domDirty>>
  /\ UNCHANGED notReplay

\* await page.goto(url, ...): nothing catches a rejection.
GoToUrl ==
  /\ rpc = "goto"
  /\ navigations' = navigations + 1
  /\ \/ rpc' = "gotoSettle"
     \/ rpc' = "threw"
  /\ UNCHANGED <<cachedAction, maxSteps, performFallback, attempt,
                 attemptState, attemptLog, lastError, hookCalls, domDirty,
                 result>>
  /\ UNCHANGED notReplay

\* A return from the navigation that leaves the DOM snapshot as it is.
GoToUrlDoneKeepsSnapshot ==
  /\ rpc = "gotoSettle"
  /\ result' = CachedResult("completed", 1)
  /\ rpc' = "returned"
  /\ UNCHANGED <<cachedAction, maxSteps, performFallback, attempt,
                 attemptState, attemptLog, lastError, hookCalls, navigations,
                 domDirty>>
  /\ UNCHANGED notReplay

\* await waitForSettledDOM(page); markDomSnapshotDirty(page); return.
GoToUrlDone ==
  /\ rpc = "gotoSettle"
  /\ domDirty' = TRUE
  /\ result' = CachedResult("completed", 1)
  /\ rpc' = "returned"
  /\ UNCHANGED <<cachedAction, maxSteps, performFallback, attempt,
                 attemptState, attemptLog, lastError, hookCalls, navigations>>
  /\ UNCHANGED notReplay

\* A loop test that runs one attempt too many.
LoopContinuesOffByOne == attempt <= maxSteps

\* for (...; attempt < maxSteps; ...)
LoopContinues == attempt < maxSteps

\* The loop head: the next runCachedAttempt is called and awaited, or the
\* loop is left.
LoopHead ==
  /\ rpc = "loop"
  /\ IF LoopContinues
     THEN /\ attemptState' = [attemptState EXCEPT ![attempt + 1] = "settling"]
          /\ rpc' = "awaiting"
     ELSE /\ rpc' = "afterLoop"
          /\ UNCHANGED attemptState
  /\ UNCHANGED <<cachedAction, maxSteps, performFallback, attempt, attemptLog,
                 lastError, hookCalls, navigations, domDirty, result>>
  /\ UNCHANGED notReplay

\* runCachedAttempt: await waitForSettledDOM(page)
AttemptSettle(i) ==
  /\ attemptState[i] = "settling"
  /\ attemptLog' = [attemptLog EXCEPT ![i] = Append(@, "settle")]
  /\ attemptState' = [attemptState EXCEPT ![i] = "capturing"]
  /\ UNCHANGED <<cachedAction, maxSteps, performFallback, rpc, attempt,
                 lastError, hookCalls, navigations, domDirty, result>>
  /\ UNCHANGED notReplay

\* runCachedAttempt: captureDOMState(page, { useCache: false, ... })
AttemptCapture(i) ==
  /\ attemptState[i] = "capturing"
  /\ \/ /\ attemptLog' = [attemptLog EXCEPT ![i] = Append(@, "captureFresh")]
        /\ attemptState' = [attemptState EXCEPT ![i] = "resolving"]
     \/ /\ attemptState' = [attemptState EXCEPT ![i] = "rejected"]
        /\ UNCHANGED attemptLog
  /\ UNCHANGED <<cachedAction, maxSteps, performFallback, rpc, attempt,
                 lastError, hookCalls, navigations, domDirty, result>>
  /\ UNCHANGED notReplay

\* runCachedAttempt: initializeRuntimeContext and resolveXPathWithCDP
AttemptResolve(i) ==
  /\ attemptState[i] = "resolving"
  /\ \/ /\ attemptLog' = [attemptLog EXCEPT ![i] = Append(@, "resolve")]
        /\ attemptState' = [attemptState EXCEPT ![i] = "performing"]
     \/ /\ attemptState' = [attemptState EXCEPT ![i] = "rejected"]
        /\ UNCHANGED attemptLog
  /\ UNCHANGED <<cachedAction, maxSteps, performFallback, rpc, attempt,
                 lastError, hookCalls, navigations, domDirty, result>>
  /\ UNCHANGED notReplay

\* runCachedAttempt: performAction, whose success flag is returned.
AttemptPerform(i) ==
  /\ attemptState[i] = "performing"
  /\ \/ /\ attemptLog' = [attemptLog EXCEPT ![i] = Append(@, "perform")]
        /\ \E success \in BOOLEAN :
             attemptState' =
               [attemptState EXCEPT ![i] =
                  IF success THEN "succeeded" ELSE "unsuccessful"]
     \/ /\ attemptState' = [attemptState EXCEPT ![i] = "rejected"]
        /\ UNCHANGED attemptLog
  /\ UNCHANGED <<cachedAction, maxSteps, performFallback, rpc, attempt,
                 lastError, hookCalls, navigations, domDirty, result>>
  /\ UNCHANGED notReplay

\* The loop body after the await: a failed attempt sets lastError and goes
\* on to the next iteration; a successful one leaves the loop.
LoopResume ==
  /\ rpc = "awaiting"
  /\ attemptState[attempt + 1] \in {"rejected", "unsuccessful", "succeeded"}
  /\ IF attemptState[attempt + 1] = "succeeded"
     THEN /\ rpc' = "successSettle"
          /\ UNCHANGED <<attempt, lastError>>
     ELSE /\ lastError' = TRUE
          /\ attempt' = attempt + 1
          /\ rpc' = "loop"
  /\ UNCHANGED <<cachedAction, maxSteps, performFallback, attemptState,
                 attemptLog, hookCalls, navigations, domDirty, result>>
  /\ UNCHANGED notReplay

\* await waitForSettledDOM(page); markDomSnapshotDirty(page); return.
SuccessReturn ==
  /\ rpc = "successSettle"
  /\ domDirty' = TRUE
  /\ lastError' = FALSE
  /\ result' = CachedResult("completed", attempt + 1)
  /\ rpc' = "returned"
  /\ UNCHANGED <<cachedAction, maxSteps, performFallback, attempt,
                 attemptState, attemptLog, hookCalls, navigations>>
  /\ UNCHANGED notReplay

\* After the loop: the hook is invoked when configured; otherwise the
\* failure result is returned.
AfterLoop ==
  /\ rpc = "afterLoop"
  /\ IF performFallback
     THEN /\ hookCalls' = hookCalls + 1
          /\ rpc' = "fallback"
          /\ UNCHANGED result
     ELSE /\ result' = CachedResult("failed", maxSteps)
          /\ rpc' = "returned"
          /\ UNCHANGED hookCalls
  /\ UNCHANGED <<cachedAction, maxSteps, performFallback, attempt,
                 attemptState, attemptLog, lastError, navigations, domDirty>>
  /\ UNCHANGED notReplay

\* A fallback result that is not tagged.
FallbackResultUntagged(fbStatus) == CachedResult(fbStatus, maxSteps)

\* { ...fb, replayStepMeta: { fallbackUsed: true, retries: maxSteps, ... } }
FallbackResult(fbStatus) ==
  [status |-> fbStatus, meta |-> TRUE, fallbackUsed |-> TRUE, retries |-> maxSteps]

\* const fb = await params.performFallback(instruction): its TaskOutput is
\* returned with the replay metadata; nothing catches a rejection.
FallbackDone ==
  /\ rpc = "fallback"
  /\ \/ \E fbStatus \in TaskStatuses :
          /\ result' = FallbackResult(fbStatus)
          /\ rpc' = "returned"
     \/ /\ rpc' = "threw"
        /\ UNCHANGED result
  /\ UNCHANGED <<cachedAction, maxSteps, performFallback, attempt,
                 attemptState, attemptLog, lastError, hookCalls, navigations,
                 domDirty>>
  /\ UNCHANGED notReplay

ReplayNext ==
  \/ EnterCachedStep
  \/ GoToUrl
  \/ GoToUrlDone
  \/ LoopHead
  \/ \E i \in Attempts : AttemptSettle(i)
  \/ \E i \in Attempts : AttemptCapture(i)
  \/ \E i \in Attempts : AttemptResolve(i)
  \/ \E i \in Attempts : AttemptPerform(i)
  \/ LoopResume
  \/ SuccessReturn
  \/ AfterLoop
  \/ FallbackDone

(***************************************************************************)
(* EncodedId producers: the DOM walk of buildBackendIdMaps and pass 1 of   *)
(* buildHierarchicalTree                                                   *)
(***************************************************************************)

\* Nodes of the document returned by DOM.getDocument; node 1 is the root.
NumDomNodes == 3

\* Largest backendNodeId handed out; 0 stands for a missing one.
MaxBackendId == 3

\* Length of the flat AX node list handed to buildHierarchicalTree.
NumAxNodes == 2

DomNodes == 1..NumDomNodes
BackendIds == 1..MaxBackendId
\* "html" is the nodeName of the doctype node of <!DOCTYPE html>.
NodeNames == {"#document", "html", "HTML", "DIV", "#text", "#comment"}
NoEncodedId == << >>

\* A frame other than the one being built whose entries were merged into
\* the maps handed to the tree builder.
OtherFrameIndex == 1

\* The documents explored: node 1 is the #document, every other node hangs
\* below an earlier one; a doctype is the first child of the document.
Documents ==
  {d \in [parent : [DomNodes -> 0..NumDomNodes],
          backendNodeId : [DomNodes -> 0..MaxBackendId],
          nodeName : [DomNodes -> NodeNames]] :
     /\ d.parent[1] = 0
     /\ d.nodeName[1] = "#document"
     /\ d.backendNodeId[1] = 1
     /\ \A n \in DomNodes \ {1} :
          /\ d.parent[n] \in 1..(n - 1)
          /\ d.nodeName[n] # "#document"
          /\ d.nodeName[n] = "html" => (n = 2 /\ d.parent[n] = 1)}

\* nodeId 0 stands for a missing nodeId, a negative one for a pseudo node;
\* backendDOMNodeId Null stands for undefined.
AxNodesAt(i) ==
  [nodeId : {-1, 0, i}, backendDOMNodeId : {Null} \cup BackendIds, keep : BOOLEAN]

TreeIdle ==
  /\ dom = [parent |-> [n \in DomNodes |-> n - 1],
            backendNodeId |-> [n \in DomNodes |-> 0],
            nodeName |-> [n \in DomNodes |-> "#document"]]
  /\ tpc = "idle"
  /\ stack = << >>
  /\ seen = {}
  /\ tagNameMap = << >>
  /\ xpathMap = << >>
  /\ axPos = 0
  /\ encodedIdAssignments = << >>
  /\ nodeMap = << >>
  /\ errorLog = {}
  /\ walkRevisits = {}

TreeInit ==
  /\ dom \in Documents
  /\ tpc = "walk"
  /\ stack = <<[node |-> 1, path |-> << >>]>>
  /\ seen = {}
  /\ tagNameMap = << >>
  /\ xpathMap = << >>
  /\ axPos = 0
  /\ encodedIdAssignments = << >>
  /\ nodeMap = << >>
  /\ errorLog = {}
  /\ walkRevisits = {}

\* `${frameIndex}-${backendNodeId}`
createEncodedId(frameIndex, backendNodeId) == <<frameIndex, backendNodeId>>

lc(str) ==
  CASE str = "DIV" -> "div"
    [] str = "HTML" -> "html"
    [] OTHER -> str

NodeType(name) ==
  CASE name = "#text" -> 3
    [] name = "#comment" -> 8
    [] name = "#document" -> 9
    [] name = "html" -> 10
    [] OTHER -> 1

\* An XPath is kept as the sequence of its steps.
joinStep(base, step) == Append(base, step)

MapSet(m, k, v) == [x \in DOMAIN m \cup {k} |-> IF x = k THEN v ELSE m[x]]

\* node.children, left to right
Kids(n) == SortedSeq({c \in DomNodes : dom.parent[c] = n})

\* The XPath step of the i-th child: its position among the earlier
\* siblings with the same node type and tag.
Segment(kids, i) ==
  LET child == kids[i]
      tag == lc(dom.nodeName[child])
      type == NodeType(dom.nodeName[child])
      idx == Cardinality({j \in 1..i :
                            /\ NodeType(dom.nodeName[kids[j]]) = type
                            /\ lc(dom.nodeName[kids[j]]) = tag})
  IN  IF type = 3 THEN [test |-> "text()", idx |-> idx]
      ELSE IF type = 8 THEN [test |-> "comment()", idx |-> idx]
      ELSE [test |-> tag, idx |-> idx]

\* The children's stack entries, pushed in reverse order.
PushKids(n, path) ==
  LET kids == Kids(n)
  IN  [i \in 1..Len(kids) |->
         [node |-> kids[Len(kids) + 1 - i],
          path |-> joinStep(path, Segment(kids, Len(kids) + 1 - i))]]

\* One iteration of the walk's while loop.
WalkStep ==
  /\ tpc = "walk"
  /\ stack # << >>
  /\ LET top == stack[Len(stack)]
         rest == SubSeq(stack, 1, Len(stack) - 1)
         encodedId == createEncodedId(MainFrame, dom.backendNodeId[top.node])
     IN  IF dom.backendNodeId[top.node] = 0
         THEN /\ stack' = rest
              /\ UNCHANGED <<seen, tagNameMap, xpathMap, walkRevisits>>
         ELSE IF encodedId \in seen
         THEN /\ stack' = rest
              /\ walkRevisits' = walkRevisits \cup {encodedId}
              /\ UNCHANGED <<seen, tagNameMap, xpathMap>>
         ELSE /\ seen' = seen \cup {encodedId}
              /\ tagNameMap' = MapSet(tagNameMap, encodedId, lc(dom.nodeName[top.node]))
              /\ xpathMap' = MapSet(xpathMap, encodedId, top.path)
              /\ stack' = rest \o PushKids(top.node, top.path)
              /\ UNCHANGED walkRevisits
  /\ UNCHANGED <<dom, tpc, axPos, encodedIdAssignments, nodeMap, errorLog>>
  /\ UNCHANGED notTree

\* The walk returns its maps; getA11yDOM may have merged another frame's
\* entries into the maps it hands to buildHierarchicalTree.
WalkDone ==
  /\ tpc = "walk"
  /\ stack = << >>
  /\ \E merged \in BOOLEAN :
       IF merged
       THEN /\ tagNameMap' = MapSet(tagNameMap, createEncodedId(OtherFrameIndex, 1), "div")
            /\ xpathMap' = MapSet(xpathMap, createEncodedId(OtherFrameIndex, 1), << >>)
       ELSE UNCHANGED <<tagNameMap, xpathMap>>
  /\ tpc' = "tree"
  /\ axPos' = 1
  /\ UNCHANGED <<dom, stack, seen, encodedIdAssignments, nodeMap,
                 errorLog, walkRevisits>>
  /\ UNCHANGED notTree

\* The EncodedId pass 1 resolves for an AX node with a backendDOMNodeId.
ResolveEncodedId(backend) ==
  LET matches == {enc \in DOMAIN tagNameMap : enc[2] = backend}
      frameMatches == {enc \in matches : enc[1] = MainFrame}
  IN  IF matches = {} THEN createEncodedId(MainFrame, backend)
      ELSE IF frameMatches # {} THEN CHOOSE enc \in frameMatches : TRUE
      ELSE createEncodedId(MainFrame, backend)

Count(m, k) == IF k \in DOMAIN m THEN m[k] ELSE 0

\* One iteration of pass 1 of buildHierarchicalTree.
TreePass1Step ==
  /\ tpc = "tree"
  /\ axPos <= NumAxNodes
  /\ \E node \in AxNodesAt(axPos) :
     LET encodedId == IF node.backendDOMNodeId # Null
                      THEN ResolveEncodedId(node.backendDOMNodeId)
                      ELSE NoEncodedId
     IN  IF node.nodeId = 0 \/ node.nodeId < 0 \/ ~node.keep
         THEN UNCHANGED <<encodedIdAssignments, nodeMap, errorLog>>
         ELSE /\ IF encodedId # NoEncodedId
                 THEN /\ encodedIdAssignments' =
                           MapSet(encodedIdAssignments, encodedId,
                                  Count(encodedIdAssignments, encodedId) + 1)
                      /\ errorLog' =
                           IF Count(encodedIdAssignments, encodedId) + 1 > 1
                           THEN errorLog \cup {encodedId}
                           ELSE errorLog
                 ELSE UNCHANGED <<encodedIdAssignments, errorLog>>
              /\ nodeMap' = MapSet(nodeMap, node.nodeId, encodedId)
  /\ axPos' = axPos + 1
  /\ UNCHANGED <<dom, tpc, stack, seen, tagNameMap, xpathMap, walkRevisits>>
  /\ UNCHANGED notTree

TreePass1Done ==
  /\ tpc = "tree"
  /\ axPos > NumAxNodes
  /\ tpc' = "done"
  /\ UNCHANGED <<dom, stack, seen, tagNameMap, xpathMap, axPos,
                 encodedIdAssignments, nodeMap, errorLog, walkRevisits>>
  /\ UNCHANGED notTree

TreeNext ==
  \/ WalkStep
  \/ WalkDone
  \/ TreePass1Step
  \/ TreePass1Done

(***************************************************************************)
(* mergeTreeResults: the per-frame tree results merged into one state      *)
(***************************************************************************)

\* Number of frame results handed to the merge.
NumTreeResults == 2

MergeIds == {createEncodedId(MainFrame, 1), createEncodedId(OtherFrameIndex, 1)}
MergeElements == {"a", "b"}
MergeXPaths == {<<[test |-> "div", idx |-> 1]>>, <<[test |-> "div", idx |-> 2]>>}

PartialMaps(D, R) == UNION {[S -> R] : S \in SUBSET D}

TreeResults ==
  [idToElement : PartialMaps(MergeIds, MergeElements),
   xpathMap : PartialMaps(MergeIds, MergeXPaths)]

MergeIdle ==
  /\ treeResults = << >>
  /\ mergePc = "idle"
  /\ mergePos = 0
  /\ allElements = << >>
  /\ allXpaths = << >>
  /\ mergeFlagged = {}

MergeInit ==
  /\ treeResults \in [1..NumTreeResults -> TreeResults]
  /\ mergePc = "merging"
  /\ mergePos = 1
  /\ allElements = << >>
  /\ allXpaths = << >>
  /\ mergeFlagged = {}

\* Map.set for every entry of `over`, Object.assign(base, over): an entry of
\* `over` replaces the entry `base` has under the same key.
Overlay(base, over) ==
  [k \in DOMAIN base \cup DOMAIN over |->
     IF k \in DOMAIN over THEN over[k] ELSE base[k]]

\* One iteration of the for loop over treeResults.
MergeResult ==
  /\ mergePc = "merging"
  /\ mergePos <= Len(treeResults)
  /\ allElements' = Overlay(allElements, treeResults[mergePos].idToElement)
  /\ allXpaths' = Overlay(allXpaths, treeResults[mergePos].xpathMap)
  /\ mergePos' = mergePos + 1
  /\ UNCHANGED <<treeResults, mergePc, mergeFlagged>>
  /\ UNCHANGED notMerge

MergeReturn ==
  /\ mergePc = "merging"
  /\ mergePos > Len(treeResults)
  /\ mergePc' = "returned"
  /\ UNCHANGED <<treeResults, mergePos, allElements, allXpaths, mergeFlagged>>
  /\ UNCHANGED notMerge

MergeNext ==
  \/ MergeResult
  \/ MergeReturn

(***************************************************************************)
(* buildHierarchicalTree passes 1 to 4 and cleanStructuralNodes            *)
(***************************************************************************)

\* Number of AX nodes of the frame whose tree is built.
NumCleanNodes == 3

CleanNodes == 1..NumCleanNodes
\* Variant in which only the generic role counts as a structural wrapper.
GenericOnly == {"generic"}

StructuralRoles == {"generic", "none"}

Names == {"", " ", "x"}

\* Role and tag name of a node.  The tag name recorded under the node's
\* EncodedId ("" when there is none) is read for generic, none and combobox
\* roles only.
RoleTags ==
  {<<"generic", "">>, <<"generic", "div">>, <<"none", "">>, <<"none", "div">>,
   <<"InlineTextBox", "">>, <<"StaticText", "">>, <<"button", "">>,
   <<"combobox", "">>, <<"combobox", "select">>}

\* The AX node lists explored: node 1 is a root, every other node is a root
\* (parentId 0) or the child of an earlier node; childIds mirrors parentId.
AxTrees ==
  {t \in [parentId : [CleanNodes -> 0..NumCleanNodes],
          roleTag : [CleanNodes -> RoleTags],
          name : [CleanNodes -> Names]] :
     \A n \in CleanNodes : t.parentId[n] < n}

NoNode == [nodeId |-> 0, role |-> "null", name |-> "", children |-> << >>]

CleanIdle ==
  /\ axTree = [parentId |-> [n \in CleanNodes |-> 0],
               roleTag |-> [n \in CleanNodes |-> <<"generic", "">>],
               name |-> [n \in CleanNodes |-> ""]]
  /\ cleanPc = "idle"
  /\ richNodes = {}
  /\ cleanedRoots = << >>

CleanInit ==
  /\ axTree \in AxTrees
  /\ cleanPc = "build"
  /\ richNodes = {}
  /\ cleanedRoots = << >>

\* String.prototype.trim on the names explored.
trim(str) == IF str = " " THEN "" ELSE str

isInteractive(role) == role \notin {"none", "generic", "InlineTextBox"}

childIds(n) == {c \in CleanNodes : axTree.parentId[c] = n}

\* Pass 1: the nodes kept have a name, childIds or an interactive role.
KeptByPass1(n) ==
  \/ trim(axTree.name[n]) # ""
  \/ childIds(n) # {}
  \/ isInteractive(axTree.roleTag[n][1])

\* Pass 2: the children wired to a kept node, in list order.
RichChildren(n) == SortedSeq({c \in childIds(n) : c \in richNodes})

\* Passes 1 to 3: nodeMap and the parent-child wiring.
BuildRichTree ==
  /\ cleanPc = "build"
  /\ richNodes' = {n \in CleanNodes : KeptByPass1(n)}
  /\ cleanPc' = "clean"
  /\ UNCHANGED <<axTree, cleanedRoots>>
  /\ UNCHANGED notClean

removeRedundantStaticTextChildren(parentName, children) ==
  IF Len(children) # 1 THEN children
  ELSE IF /\ children[1].role = "StaticText"
          /\ children[1].name = parentName
          /\ children[1].children = << >>
       THEN << >>
       ELSE children

RECURSIVE cleanStructuralNodes(_)
cleanStructuralNodes(n) ==
  LET kids == RichChildren(n)
      role == axTree.roleTag[n][1]
      tagName == axTree.roleTag[n][2]
      cleanedChildren ==
        SelectSeq([i \in 1..Len(kids) |-> cleanStructuralNodes(kids[i])],
                  LAMBDA c : c # NoNode)
      newRole ==
        IF role \in StructuralRoles /\ tagName # "" THEN tagName
        ELSE IF role = "combobox" /\ tagName = "select" THEN "select"
        ELSE role
      pruned == removeRedundantStaticTextChildren(axTree.name[n], cleanedChildren)
  IN  IF kids = << >>
      THEN IF role \in StructuralRoles THEN NoNode
           ELSE [nodeId |-> n, role |-> role, name |-> axTree.name[n],
                 children |-> << >>]
      ELSE IF role \in StructuralRoles /\ Len(cleanedChildren) = 1
      THEN cleanedChildren[1]
      ELSE IF role \in StructuralRoles /\ Len(cleanedChildren) = 0
      THEN NoNode
      ELSE IF pruned = << >> /\ newRole \in StructuralRoles
      THEN NoNode
      ELSE [nodeId |-> n, role |-> newRole, name |-> axTree.name[n],
            children |-> pruned]

\* Pass 3: the kept nodes without a parentId.
Roots == SortedSeq({n \in richNodes : axTree.parentId[n] = 0})

\* Pass 4: every root is cleaned and the removed ones are filtered out.
CleanRoots ==
  /\ cleanPc = "clean"
  /\ cleanedRoots' =
       SelectSeq([i \in 1..Len(Roots) |-> cleanStructuralNodes(Roots[i])],
                 LAMBDA c : c # NoNode)
  /\ cleanPc' = "done"
  /\ UNCHANGED <<axTree, richNodes>>
  /\ UNCHANGED notClean

CleanNext ==
  \/ BuildRichTree
  \/ CleanRoots

(***************************************************************************)
(* buildFramePaths: for every entry of the frame map, walk the parent      *)
(* chain and store the ancestry label.  A label segment `Frame n` is the   *)
(* number n, and "Main" is the main frame's number.                        *)
(***************************************************************************)

NumPathFrames == 3
PathFrames == 1..NumPathFrames

\* The parent links a map may hold: null, the main frame, another entry, or
\* an index that no map of this size has an entry for.
ParentLinks == {Null} \cup (MainFrame..(NumPathFrames + 1))

NoPath == <<Null>>

FrameMaps ==
  UNION {[keys -> [parentFrameIndex : ParentLinks]] :
           keys \in SUBSET PathFrames \ {{}}}

PathsIdle ==
  /\ pathsFrameMap = << >>
  /\ framePath = << >>
  /\ pathsPc = "idle"
  /\ pathsRemaining = {}
  /\ pathsFrameIndex = Null
  /\ currentIdx = Null
  /\ visited = {}
  /\ pathSegments = << >>

PathsInit ==
  /\ pathsFrameMap \in FrameMaps
  /\ framePath = [i \in DOMAIN pathsFrameMap |-> NoPath]
  /\ pathsPc = "for"
  /\ pathsRemaining = DOMAIN pathsFrameMap
  /\ pathsFrameIndex = Null
  /\ currentIdx = Null
  /\ visited = {}
  /\ pathSegments = << >>

\* A loop condition without the visited set.
WalksUpUnguarded == currentIdx # Null /\ currentIdx # MainFrame

\* currentIdx !== null && currentIdx !== 0 && !visited.has(currentIdx)
WalksUp ==
  currentIdx # Null /\ currentIdx # MainFrame /\ currentIdx \notin visited

\* for (const [frameIndex, frameInfo] of frameMap): the next entry.
ForNextFrame ==
  /\ pathsPc = "for"
  /\ \E entry \in pathsRemaining :
       /\ pathsFrameIndex' = entry
       /\ currentIdx' = entry
       /\ pathsRemaining' = pathsRemaining \ {entry}
  /\ visited' = {}
  /\ pathSegments' = << >>
  /\ pathsPc' = "while"
  /\ UNCHANGED <<pathsFrameMap, framePath>>
  /\ UNCHANGED notPaths

\* One turn of the while loop; a frame without an entry ends it (break).
WalkUpParentChain ==
  /\ pathsPc = "while"
  /\ WalksUp
  /\ visited' = visited \cup {currentIdx}
  /\ pathSegments' = <<currentIdx>> \o pathSegments
  /\ IF currentIdx \notin DOMAIN pathsFrameMap
     THEN pathsPc' = "build" /\ UNCHANGED currentIdx
     ELSE /\ currentIdx' = pathsFrameMap[currentIdx].parentFrameIndex
          /\ UNCHANGED pathsPc
  /\ UNCHANGED <<pathsFrameMap, framePath, pathsRemaining, pathsFrameIndex>>
  /\ UNCHANGED notPaths

\* The loop condition fails.
WalkUpEnds ==
  /\ pathsPc = "while"
  /\ ~WalksUp
  /\ pathsPc' = "build"
  /\ UNCHANGED <<pathsFrameMap, framePath, pathsRemaining, pathsFrameIndex,
                 currentIdx, visited, pathSegments>>
  /\ UNCHANGED notPaths

\* Build the final path based on where the walk ended.
BuildFinalPath ==
  /\ pathsPc = "build"
  /\ framePath' =
       [framePath EXCEPT ![pathsFrameIndex] =
          IF currentIdx = Null THEN pathSegments
          ELSE IF currentIdx = MainFrame THEN <<MainFrame>> \o pathSegments
          ELSE pathSegments]
  /\ pathsPc' = "for"
  /\ UNCHANGED <<pathsFrameMap, pathsRemaining, pathsFrameIndex, currentIdx,
                 visited, pathSegments>>
  /\ UNCHANGED notPaths

\* The for-of loop is exhausted: buildFramePaths returns.
PathsReturn ==
  /\ pathsPc = "for"
  /\ pathsRemaining = {}
  /\ pathsPc' = "done"
  /\ UNCHANGED <<pathsFrameMap, framePath, pathsRemaining, pathsFrameIndex,
                 currentIdx, visited, pathSegments>>
  /\ UNCHANGED notPaths

PathsNext ==
  \/ ForNextFrame
  \/ WalkUpParentChain
  \/ WalkUpEnds
  \/ BuildFinalPath
  \/ PathsReturn

(***************************************************************************)
(* getElementLocator: from an element id to a locator.  A string is the    *)
(* sequence of its characters; an xpath is the sequence of its segments.   *)
(***************************************************************************)

MaxIdLen == 3
IdChars == {"0", "1", "-"}
Digits == {"0", "1"}

ElementIds == UNION {[1..n -> IdChars] : n \in 0..MaxIdLen}

\* ID_PATTERN = /^\d+-\d+$/
isEncodedId(id) ==
  \E k \in 1..Len(id) :
    /\ id[k] = "-"
    /\ k > 1 /\ k < Len(id)
    /\ \A j \in (1..Len(id)) \ {k} : id[j] \in Digits

\* The first piece of encodedId.split("-").
RECURSIVE FirstPiece(_)
FirstPiece(id) ==
  IF id = << >> \/ Head(id) = "-" THEN << >>
  ELSE <<Head(id)>> \o FirstPiece(Tail(id))

\* parseInt(frameIndexStr, 10) on a string of digits.
RECURSIVE parseInt(_)
parseInt(digits) ==
  IF digits = << >> THEN 0
  ELSE 10 * parseInt(SubSeq(digits, 1, Len(digits) - 1))
       + (IF digits[Len(digits)] = "1" THEN 1 ELSE 0)

\* The xpaths the walk records: "" for a document node, an element, a text
\* node under an element.
LocXPaths == {<< >>, <<"div[1]">>, <<"div[1]", "text()[1]">>}

\* The steps that /\/text\(\)(\[\d+\])?$/iu matches at the end of an xpath,
\* among the steps the walk writes.
TextNodeSteps == {"text()[1]", "text()[12]"}

\* rawXpath.replace(/\/text\(\)(\[\d+\])?$/iu, "")
TrimTextSegment(xpath) ==
  IF xpath # << >> /\ xpath[Len(xpath)] \in TextNodeSteps
  THEN SubSeq(xpath, 1, Len(xpath) - 1)
  ELSE xpath

MappedIds == {<<"0", "-", "1">>, <<"1", "-", "1">>}

LocXpathMaps == UNION {[keys -> LocXPaths] : keys \in SUBSET MappedIds}

\* Frame 1 has no entry, an entry with playwrightFrame bound, or one without.
LocFrameMaps == UNION {[keys -> [playwrightFrame : BOOLEAN]] : keys \in SUBSET {1}}

NoOutcome == [kind |-> "none"]

\* throw new HyperagentError(errorMsg, 404)
HyperagentError(errorMsg) ==
  [kind |-> "threw", type |-> "HyperagentError", statusCode |-> 404,
   message |-> errorMsg]

\* throw new Error(`Invalid EncodedId format: ...`)
InvalidEncodedIdError ==
  [kind |-> "threw", type |-> "Error", statusCode |-> Null,
   message |-> "Invalid EncodedId format"]

Located(frameIdx, xpath) ==
  [kind |-> "returned", frame |-> frameIdx, xpath |-> xpath]

LocIdle ==
  /\ locElementId = << >>
  /\ locXpathMap = << >>
  /\ locFrameMap = << >>
  /\ locPc = "idle"
  /\ locTargetFrame = Null
  /\ locOutcome = NoOutcome
  /\ locCalls = {}

LocInit ==
  /\ locElementId \in ElementIds
  /\ locXpathMap \in LocXpathMaps
  /\ locFrameMap \in LocFrameMaps
  /\ locPc = "start"
  /\ locTargetFrame = Null
  /\ locOutcome = NoOutcome
  /\ locCalls = {}

\* const encodedId = toEncodedId(elementId)
ToEncodedId ==
  /\ locPc = "start"
  /\ IF isEncodedId(locElementId)
     THEN locPc' = "lookup" /\ UNCHANGED locOutcome
     ELSE locPc' = "done" /\ locOutcome' = InvalidEncodedIdError
  /\ UNCHANGED <<locElementId, locXpathMap, locFrameMap, locTargetFrame,
                 locCalls>>
  /\ UNCHANGED notLoc

\* !rawXpath: no entry, or the empty string
NoRawXpath ==
  \/ locElementId \notin DOMAIN locXpathMap
  \/ locXpathMap[locElementId] = << >>

\* Variant that takes every frame through the lazy resolution.
AlwaysUnbound(iframeInfo) == TRUE

\* `!targetFrame` for targetFrame = iframeInfo.playwrightFrame
Unbound(iframeInfo) == ~iframeInfo.playwrightFrame

\* The xpath lookup, the main-frame return and the frame map lookup.
LookupXPath ==
  /\ locPc = "lookup"
  /\ IF NoRawXpath
     THEN /\ locOutcome' = HyperagentError("not found in xpath map")
          /\ locPc' = "done"
          /\ UNCHANGED <<locTargetFrame, locCalls>>
     ELSE LET xpath == TrimTextSegment(locXpathMap[locElementId])
              frameIdx == parseInt(FirstPiece(locElementId))
          IN IF frameIdx = 0
             THEN /\ locOutcome' = Located(0, xpath)
                  /\ locPc' = "done"
                  /\ locCalls' = locCalls \cup {"page.locator"}
                  /\ UNCHANGED locTargetFrame
             ELSE IF frameIdx \notin DOMAIN locFrameMap
             THEN /\ locOutcome' = HyperagentError("Frame metadata not found")
                  /\ locPc' = "done"
                  /\ locCalls' = locCalls \cup {"frameMap.has"}
                  /\ UNCHANGED locTargetFrame
             ELSE IF Unbound(locFrameMap[frameIdx])
             THEN /\ locPc' = "resolve"
                  /\ locCalls' = locCalls \cup {"frameMap.has", "frameMap.get"}
                  /\ UNCHANGED <<locTargetFrame, locOutcome>>
             ELSE /\ locTargetFrame' = frameIdx
                  /\ locPc' = "waitLoad"
                  /\ locCalls' = locCalls \cup {"frameMap.has", "frameMap.get"}
                  /\ UNCHANGED locOutcome
  /\ UNCHANGED <<locElementId, locXpathMap, locFrameMap>>
  /\ UNCHANGED notLoc

\* const resolvedFrame = await resolveFrameByXPath(page, frameMap, frameIndex):
\* the walk yields the frame or null.
ResolveFrame ==
  /\ locPc = "resolve"
  /\ locCalls' = locCalls \cup {"resolveFrameByXPath"}
  /\ \E resolved \in BOOLEAN :
       IF resolved
       THEN /\ locTargetFrame' = parseInt(FirstPiece(locElementId))
            /\ locPc' = "waitLoad"
            /\ UNCHANGED locOutcome
       ELSE /\ locOutcome' = HyperagentError("Could not resolve frame")
            /\ locPc' = "done"
            /\ UNCHANGED locTargetFrame
  /\ UNCHANGED <<locElementId, locXpathMap, locFrameMap>>
  /\ UNCHANGED notLoc

\* await targetFrame.waitForLoadState(...) in a try whose catch goes on; then
\* return the frame's locator.
WaitFrameLoaded ==
  /\ locPc = "waitLoad"
  /\ locOutcome' =
       Located(locTargetFrame, TrimTextSegment(locXpathMap[locElementId]))
  /\ locPc' = "done"
  /\ locCalls' = locCalls \cup {"targetFrame.locator"}
  /\ UNCHANGED <<locElementId, locXpathMap, locFrameMap, locTargetFrame>>
  /\ UNCHANGED notLoc

LocNext ==
  \/ ToEncodedId
  \/ LookupXPath
  \/ ResolveFrame
  \/ WaitFrameLoaded

(***************************************************************************)
(* Action dispatch: the shared executePlaywrightMethod, the act-element    *)
(* agent action that validates the method and calls it, and HyperAgent's   *)
(* own executePlaywrightMethod.                                            *)
(***************************************************************************)

AGENT_ELEMENT_ACTIONS ==
  {"click", "fill", "type", "press", "selectOptionFromDropdown", "check",
   "uncheck", "hover", "scrollTo", "nextChunk", "prevChunk"}

\* Method names a language model may also answer with.
OtherMethods == {"dblclick", "toString"}

MaxArgs == 1
ArgLists == UNION {[1..n -> {"", "a"}] : n \in 0..MaxArgs}

DispEntries == {"shared", "actElement", "aiAction"}

\* The locator call each case of the switch makes.
LocatorCall(m) ==
  CASE m = "click" -> "click"
    [] m \in {"type", "fill"} -> "fill"
    [] m = "selectOptionFromDropdown" -> "selectOption"
    [] m = "hover" -> "hover"
    [] m = "press" -> "press"
    [] m = "check" -> "check"
    [] m = "uncheck" -> "uncheck"
    [] m \in {"scrollTo", "nextChunk", "prevChunk"} -> "evaluate"

\* The messages a rejected locator call may carry, and no rejection.
LocatorErrors == {"intercepted", "timeout"}
NoError == ""

\* One call on the locator and the error it rejected with, if any.
Called(call, error) == [call |-> call, error |-> error]

\* The cases of the switch statement.
SwitchCases ==
  {"click", "type", "fill", "selectOptionFromDropdown", "hover", "press",
   "check", "uncheck", "scrollTo", "nextChunk", "prevChunk"}

ThrownError(type, errorMsg) ==
  [kind |-> "threw", type |-> type, message |-> errorMsg]

ActionOutput(success, message) ==
  [kind |-> "returned", success |-> success, message |-> message]

\* The default case: a plain Error in the shared function, a HyperagentError
\* with status 400 in HyperAgent's method.
UnknownMethodError ==
  ThrownError(IF dispEntry = "aiAction" THEN "HyperagentError" ELSE "Error",
              <<"Unknown method">>)

\* `Failed to click element. Playwright error: ${errorMsg}. JS click error:
\* ${jsErrorMsg}`
ClickFailedError(errorMsg, jsErrorMsg) ==
  ThrownError("Error", <<"Failed to click element", errorMsg, jsErrorMsg>>)

DispIdle ==
  /\ dispEntry = "none"
  /\ method = ""
  /\ args = << >>
  /\ dispPc = "idle"
  /\ locatorCalls = << >>
  /\ pending = NoOutcome
  /\ dispOutcome = NoOutcome

DispInit ==
  /\ dispEntry \in DispEntries
  /\ method \in AGENT_ELEMENT_ACTIONS \cup OtherMethods
  /\ args \in ArgLists
  /\ dispPc = IF dispEntry = "actElement" THEN "validate" ELSE "switch"
  /\ locatorCalls = << >>
  /\ pending = NoOutcome
  /\ dispOutcome = NoOutcome

\* if (!AGENT_ELEMENT_ACTIONS.includes(method)) return { success: false, ... }
ValidateAction ==
  /\ dispPc = "validate"
  /\ IF method \in AGENT_ELEMENT_ACTIONS
     THEN dispPc' = "locate" /\ UNCHANGED dispOutcome
     ELSE /\ dispOutcome' = ActionOutput(FALSE, <<"not allowed">>)
          /\ dispPc' = "done"
  /\ UNCHANGED <<dispEntry, method, args, locatorCalls, pending>>
  /\ UNCHANGED notDisp

\* const { locator } = await getElementLocator(...), inside the try
GetLocator ==
  /\ dispPc = "locate"
  /\ \E found \in BOOLEAN :
       IF found
       THEN dispPc' = "switch" /\ UNCHANGED pending
       ELSE /\ pending' = ThrownError("HyperagentError", <<"not found">>)
            /\ dispPc' = "thrown"
  /\ UNCHANGED <<dispEntry, method, args, locatorCalls, dispOutcome>>
  /\ UNCHANGED notDisp

\* switch (method): the matching case makes its locator call, which succeeds
\* or throws; a failed click of the shared function goes on to the
\* JavaScript click; the default case throws.
ExecutePlaywrightMethod ==
  /\ dispPc = "switch"
  /\ IF method \in SwitchCases
     THEN \E error \in LocatorErrors \cup {NoError} :
            /\ locatorCalls' =
                 Append(locatorCalls, Called(LocatorCall(method), error))
            /\ IF error = NoError
               THEN dispPc' = "executed" /\ UNCHANGED pending
               ELSE IF method = "click" /\ dispEntry # "aiAction"
               THEN dispPc' = "jsClick" /\ UNCHANGED pending
               ELSE /\ pending' = ThrownError("Error", <<error>>)
                    /\ dispPc' = "thrown"
     ELSE /\ pending' = UnknownMethodError
          /\ dispPc' = "thrown"
          /\ UNCHANGED locatorCalls
  /\ UNCHANGED <<dispEntry, method, args, dispOutcome>>
  /\ UNCHANGED notDisp

\* await locator.evaluate((el) => el.click()); both failures are reported.
JsClickFallback ==
  /\ dispPc = "jsClick"
  /\ \E jsClickError \in LocatorErrors \cup {NoError} :
       /\ locatorCalls' = Append(locatorCalls, Called("evaluate", jsClickError))
       /\ IF jsClickError = NoError
          THEN dispPc' = "executed" /\ UNCHANGED pending
          ELSE /\ pending' =
                    ClickFailedError(locatorCalls[Len(locatorCalls)].error,
                                     jsClickError)
               /\ dispPc' = "thrown"
  /\ UNCHANGED <<dispEntry, method, args, dispOutcome>>
  /\ UNCHANGED notDisp

\* The dispatcher returns: the act-element action turns success and every
\* caught exception into an output; the other two return or let it through.
DispatchReturns ==
  /\ dispPc \in {"executed", "thrown"}
  /\ dispOutcome' =
       IF dispEntry = "actElement"
       THEN ActionOutput(dispPc = "executed",
                         IF dispPc = "executed"
                         THEN <<"Successfully executed">>
                         ELSE <<"Failed to execute">> \o pending.message)
       ELSE IF dispPc = "executed" THEN [kind |-> "returned"]
       ELSE pending
  /\ dispPc' = "done"
  /\ UNCHANGED <<dispEntry, method, args, locatorCalls, pending>>
  /\ UNCHANGED notDisp

DispNext ==
  \/ ValidateAction
  \/ GetLocator
  \/ ExecutePlaywrightMethod
  \/ JsClickFallback
  \/ DispatchReturns

(***************************************************************************)
(* scrollTo: scroll an element, or the window for <html>, to a percentage  *)
(* of its scrollable height.  A position is where the smooth scroll ends.  *)
(* A string is what it reads as: a number with or without a trailing "%",  *)
(* the empty string, or a word.  Heights and percentages are picked so     *)
(* that (scrollHeight - clientHeight) * yPct / 100 is whole.               *)
(***************************************************************************)

MaxScrolls == 2

PercentValues == {-10, 0, 25, 50, 100, 150}

Undefined == [kind |-> "undefined"]
NumberArg(v) == [kind |-> "number", value |-> v]
NumeralString(v, percent) ==
  [kind |-> "string", text |-> "numeral", value |-> v, percent |-> percent]
EmptyString ==
  [kind |-> "string", text |-> "empty", value |-> 0, percent |-> FALSE]
WordString ==
  [kind |-> "string", text |-> "word", value |-> 0, percent |-> FALSE]

\* What a caller may pass as args[0].
ScrollArgs ==
  {Undefined, EmptyString, WordString}
    \cup {NumberArg(v) : v \in PercentValues}
    \cup {NumeralString(v, p) : v \in PercentValues, p \in BOOLEAN}

Elements ==
  [tag : {"html", "div", "iframe"}, scrollHeight : {100, 300},
   clientHeight : {100, 200}]

\* v == null ? "" : String(v)
String(v) ==
  IF v.kind = "undefined" THEN EmptyString
  ELSE IF v.kind = "number" THEN NumeralString(v.value, FALSE)
  ELSE v

\* The arguments the dispatcher receives: as passed, or through the map of
\* runCachedAttempt.
methodArgs(entry, arg) == IF entry = "cached" THEN String(arg) ELSE arg

\* args[0] is falsy: undefined, 0 or "".
Falsy(arg) ==
  \/ arg.kind = "undefined"
  \/ arg.kind = "number" /\ arg.value = 0
  \/ arg.kind = "string" /\ arg.text = "empty"

\* (args[0] || "50%").toString()
scrollArgOf(arg) ==
  IF Falsy(arg) THEN NumeralString(50, TRUE)
  ELSE IF arg.kind = "number" THEN NumeralString(arg.value, FALSE)
  ELSE arg

Lower(a, b) == IF a < b THEN a ELSE b
Higher(a, b) == IF a > b THEN a ELSE b

\* parsePercent without the clamp.
parsePercentUnclamped(val) == IF val.text = "numeral" THEN val.value ELSE 0

\* parsePercent: trim, drop the "%", parseFloat; NaN is 0; clamp to [0, 100].
parsePercent(val) ==
  IF val.text = "numeral" THEN Higher(0, Lower(val.value, 100)) ELSE 0

\* A target that moves by the amount from where the element is.
scrollTopRelative(current, scrollHeight, clientHeight, yPct) ==
  current + ((scrollHeight - clientHeight) * yPct) \div 100

\* const scrollTop = (scrollHeight - clientHeight) * (yPct / 100)
scrollTopTarget(current, scrollHeight, clientHeight, yPct) ==
  ((scrollHeight - clientHeight) * yPct) \div 100

\* What the browser makes of scrollTo({ top }): a position in range.
Scrolled(top, el) ==
  Higher(0, Lower(top, Higher(0, el.scrollHeight - el.clientHeight)))

ScrollIdle ==
  /\ scrollEntry = "none"
  /\ element = [tag |-> "none", scrollHeight |-> 0, clientHeight |-> 0]
  /\ scrollTop = 0
  /\ block = "none"
  /\ scrollLog = << >>

ScrollInit ==
  /\ scrollEntry \in {"direct", "cached"}
  /\ element \in Elements
  /\ scrollTop \in {Scrolled(0, element), Scrolled(100, element)}
  /\ block = "none"
  /\ scrollLog = << >>

\* case "scrollTo": the evaluate callback.
ScrollTo(arg) ==
  /\ Len(scrollLog) < MaxScrolls
  /\ LET yPct == parsePercent(scrollArgOf(methodArgs(scrollEntry, arg)))
         isScrollable == element.scrollHeight > element.clientHeight
         top == scrollTopTarget(scrollTop, element.scrollHeight,
                                element.clientHeight, yPct)
     IN /\ IF element.tag = "html" \/ isScrollable
           THEN /\ scrollTop' = Scrolled(top, element)
                /\ UNCHANGED block
           ELSE /\ block' = IF yPct < 30 THEN "start"
                            ELSE IF yPct > 70 THEN "end" ELSE "center"
                /\ UNCHANGED scrollTop
        /\ scrollLog' = Append(scrollLog,
                               [arg |-> arg, yPct |-> yPct, target |-> top,
                                scrollTop |-> scrollTop', block |-> block'])
  /\ UNCHANGED <<scrollEntry, element>>
  /\ UNCHANGED notScroll

ScrollNext == \E arg \in ScrollArgs : ScrollTo(arg)

(***************************************************************************)
(* The nodes collected per frame: the main frame's full AX tree, then a    *)
(* same-origin iframe (frame 1) and an out-of-process iframe (frame 2),    *)
(* each with the DOM fallback when its AX nodes hold nothing interactive.  *)
(***************************************************************************)

SameOriginFrameIndex == 1
OOPIFFrameIndex == 2

FbEncodedIds ==
  {createEncodedId(MainFrame, 1), createEncodedId(SameOriginFrameIndex, 1),
   createEncodedId(SameOriginFrameIndex, 2), createEncodedId(OOPIFFrameIndex, 1)}

FbTagNames == {"input", "textarea", "button", "a", "select", "div"}

FbTagNameMaps == UNION {[keys -> FbTagNames] : keys \in SUBSET FbEncodedIds}

INTERACTIVE_ROLES ==
  {"button", "link", "textbox", "searchbox", "combobox", "checkbox", "radio"}

AXNodeOf(role, ignored) ==
  [nodeId |-> <<"ax", role>>, role |-> role, ignored |-> ignored]

\* What Accessibility.getFullAXTree / getPartialAXTree may return.
FetchedNodes ==
  {{}, {AXNodeOf("generic", FALSE)}, {AXNodeOf("button", TRUE)},
   {AXNodeOf("generic", FALSE), AXNodeOf("link", FALSE)}}

hasInteractiveElements(nodes) ==
  \E node \in nodes : node.role \in INTERACTIVE_ROLES /\ ~node.ignored

NoRole == ""

mapTagToRole(tagName) ==
  CASE tagName \in {"input", "textarea"} -> "textbox"
    [] tagName = "button" -> "button"
    [] tagName = "a" -> "link"
    [] tagName = "select" -> "combobox"
    [] OTHER -> NoRole

\* createDOMFallbackNodes: one node per interactive tag of the frame.
createDOMFallbackNodes(frameIdx, tagNames) ==
  {[nodeId |-> <<"dom", encodedId>>, role |-> mapTagToRole(tagNames[encodedId]),
    ignored |-> FALSE] :
     encodedId \in {e \in DOMAIN tagNames :
                      e[1] = frameIdx /\ mapTagToRole(tagNames[e]) # NoRole}}

\* The nodes used for an iframe: the fetched ones, or the fallback nodes when
\* nothing fetched is interactive and there are fallback nodes.
NodesOrFallback(frameIdx, nodes) ==
  IF ~hasInteractiveElements(nodes)
       /\ createDOMFallbackNodes(frameIdx, fbTagNameMap) # {}
  THEN createDOMFallbackNodes(frameIdx, fbTagNameMap)
  ELSE nodes

FbIdle ==
  /\ fbTagNameMap = << >>
  /\ fbPc = "idle"
  /\ fbFrameIndex = Null
  /\ fbFetched = {}
  /\ fbCollected = {}

FbInit ==
  /\ fbTagNameMap \in FbTagNameMaps
  /\ fbPc = "main"
  /\ fbFrameIndex = Null
  /\ fbFetched = {}
  /\ fbCollected = {}

\* getA11yDOM 4a: Accessibility.getFullAXTree on the main session; the nodes
\* are pushed as they come.  A rejection leaves the pass.
FetchMainTree ==
  /\ fbPc = "main"
  /\ \/ \E nodes \in FetchedNodes :
          /\ fbFrameIndex' = MainFrame
          /\ fbFetched' = nodes
          /\ fbCollected' = nodes
          /\ fbPc' = "sameOrigin"
     \/ /\ fbPc' = "rejected"
        /\ UNCHANGED <<fbFrameIndex, fbFetched, fbCollected>>
  /\ UNCHANGED fbTagNameMap
  /\ UNCHANGED notFb

\* fetchIframeAXTrees step 1, one same-origin frame: getPartialAXTree, the
\* fallback, the push; a rejection is caught and the frame skipped.
FetchSameOriginTree ==
  /\ fbPc = "sameOrigin"
  /\ \/ \E nodes \in FetchedNodes :
          /\ fbFrameIndex' = SameOriginFrameIndex
          /\ fbFetched' = nodes
          /\ fbCollected' = NodesOrFallback(SameOriginFrameIndex, nodes)
     \/ UNCHANGED <<fbFrameIndex, fbFetched, fbCollected>>
  /\ fbPc' = "oopif"
  /\ UNCHANGED fbTagNameMap
  /\ UNCHANGED notFb

\* processOOPIFRecursive: getFullAXTree on the frame's session, the
\* fallback, the push; a rejection leaves the pass.
ProcessOOPIFTree ==
  /\ fbPc = "oopif"
  /\ \/ \E nodes \in FetchedNodes :
          /\ fbFrameIndex' = OOPIFFrameIndex
          /\ fbFetched' = nodes
          /\ fbCollected' = NodesOrFallback(OOPIFFrameIndex, nodes)
          /\ fbPc' = "done"
     \/ /\ fbPc' = "rejected"
        /\ UNCHANGED <<fbFrameIndex, fbFetched, fbCollected>>
  /\ UNCHANGED fbTagNameMap
  /\ UNCHANGED notFb

FbNext ==
  \/ FetchMainTree
  \/ FetchSameOriginTree
  \/ ProcessOOPIFTree

(***************************************************************************)
(* nextChunk and prevChunk: scroll the element (or the scrolling root for  *)
(* html and body) by one height with behavior "smooth", then poll          *)
(* el.scrollTop once per animation frame until a read equals the previous  *)
(* one.  Meanwhile the browser animates the scroll and the page or the     *)
(* user may scroll the element elsewhere.                                  *)
(***************************************************************************)

MaxScrollTop == 3
ScrollTops == 0..MaxScrollTop
ChunkMethods == {"nextChunk", "prevChunk"}

ChunkElements ==
  [tagName : {"html", "body", "div"}, height : 1..2, viewportHeight : 1..2]

ChunkIdle ==
  /\ chunkMethod = "none"
  /\ chunkElement = [tagName |-> "none", height |-> 0, viewportHeight |-> 0]
  /\ chunkPc = "idle"
  /\ elScrollTop = 0
  /\ scrollTarget = 0
  /\ last = 0
  /\ reads = << >>

ChunkInit ==
  /\ chunkMethod \in ChunkMethods
  /\ chunkElement \in ChunkElements
  /\ chunkPc = "scrollBy"
  /\ elScrollTop \in ScrollTops
  /\ scrollTarget = elScrollTop
  /\ last = 0
  /\ reads = << >>

\* The `top` passed to scrollBy: the viewport height for html and body, the
\* bounding height otherwise, negated by prevChunk.
scrollByTop(m, el) ==
  LET height == IF el.tagName \in {"html", "body"} THEN el.viewportHeight
                ELSE el.height
  IN  IF m = "nextChunk" THEN height ELSE -height

\* The browser keeps scrollTop inside the scrollable range.
ClampTop(top) ==
  IF top < 0 THEN 0 ELSE IF top > MaxScrollTop THEN MaxScrollTop ELSE top

\* Variant of the comparison that accepts any read.
AnyRead(cur, lastRead) == TRUE

\* check(): `cur === last`.
SameRead(cur, lastRead) == cur = lastRead

\* The two latest reads after reading `cur`.
Latest(rs, cur) == IF Len(rs) < 2 THEN Append(rs, cur) ELSE <<rs[2], cur>>

\* scrollBy({top, behavior: "smooth"}) and the start of waitForScrollEnd:
\* the first read is taken before the animation has moved anything.
ScrollByChunk ==
  /\ chunkPc = "scrollBy"
  /\ scrollTarget' =
       ClampTop(elScrollTop + scrollByTop(chunkMethod, chunkElement))
  /\ last' = elScrollTop
  /\ reads' = <<elScrollTop>>
  /\ chunkPc' = "waiting"
  /\ UNCHANGED <<chunkMethod, chunkElement, elScrollTop>>
  /\ UNCHANGED notChunk

\* The browser moves the element one step towards the target.
SmoothScrollStep ==
  /\ chunkPc = "waiting"
  /\ elScrollTop # scrollTarget
  /\ elScrollTop' =
       IF elScrollTop < scrollTarget THEN elScrollTop + 1 ELSE elScrollTop - 1
  /\ UNCHANGED <<chunkMethod, chunkElement, chunkPc, scrollTarget, last, reads>>
  /\ UNCHANGED notChunk

\* The user or a page script scrolls the element somewhere else, which
\* cancels the animation.
PageScrolls ==
  /\ chunkPc = "waiting"
  /\ \E top \in ScrollTops \ {elScrollTop} :
       /\ elScrollTop' = top
       /\ scrollTarget' = top
  /\ UNCHANGED <<chunkMethod, chunkElement, chunkPc, last, reads>>
  /\ UNCHANGED notChunk

\* requestAnimationFrame(check): resolve when the read equals the previous
\* one, otherwise remember it and ask for another frame.
AnimationFrame ==
  /\ chunkPc = "waiting"
  /\ LET cur == elScrollTop
     IN  /\ reads' = Latest(reads, cur)
         /\ IF SameRead(cur, last)
            THEN /\ chunkPc' = "returned"
                 /\ last' = last
            ELSE /\ last' = cur
                 /\ chunkPc' = "waiting"
  /\ UNCHANGED <<chunkMethod, chunkElement, elScrollTop, scrollTarget>>
  /\ UNCHANGED notChunk

ChunkNext ==
  \/ ScrollByChunk
  \/ SmoothScrollStep
  \/ PageScrolls
  \/ AnimationFrame

(***************************************************************************)
(* Finding an element from an instruction: up to maxRetries attempts, each *)
(* settling the DOM, fetching a fresh tree and asking examineDom, with a   *)
(* delay between attempts.  findElementWithInstruction is the shared       *)
(* function, findElementWithRetry the method of the HyperAgent class.      *)
(***************************************************************************)

MaxRetriesLimit == 3
FindEntries == {"shared", "agent"}

\* examineDom resolves with elements, with an empty list or with null, or
\* rejects (the model call failed).
ExamineResults == {"elements", "empty", "null", "rejected"}

NoFindOutcome == [kind |-> "none", success |-> FALSE, statusCode |-> 0]

FindIdle ==
  /\ findEntry = "none"
  /\ maxRetries = 0
  /\ findAttempt = 0
  /\ findPc = "idle"
  /\ examineLog = << >>
  /\ findOutcome = NoFindOutcome

FindInit ==
  /\ findEntry \in FindEntries
  /\ maxRetries \in 0..MaxRetriesLimit
  /\ findAttempt = 0
  /\ findPc = "attempt"
  /\ examineLog = << >>
  /\ findOutcome = NoFindOutcome

\* A FindElementResult, or the object findElementWithRetry returns.
FindElementResult(success) ==
  [kind |-> "returned", success |-> success, statusCode |-> 0]

\* An error leaving the function; statusCode 0 for a plain Error.
FindError(statusCode) ==
  [kind |-> "threw", success |-> FALSE, statusCode |-> statusCode]

\* `examineResult && examineResult.elements.length > 0`
Found(examineResult) == examineResult = "elements"

\* for (attempt < maxRetries): the loop ends without an iteration.
LoopEnds ==
  /\ findPc = "attempt"
  /\ findAttempt >= maxRetries
  /\ findPc' = "exhausted"
  /\ UNCHANGED <<findEntry, maxRetries, findAttempt, examineLog, findOutcome>>
  /\ UNCHANGED notFind

\* One iteration up to the check of the result: waitForSettledDOM,
\* getA11yDOM (which returns a state, empty on errors), examineDom.
FindAttempt ==
  /\ findPc = "attempt"
  /\ findAttempt < maxRetries
  /\ \E examineResult \in ExamineResults :
       /\ examineLog' = Append(examineLog, examineResult)
       /\ IF examineResult = "rejected"
          THEN /\ findPc' = "threw"
               /\ findOutcome' = FindError(0)
               /\ UNCHANGED findAttempt
          ELSE IF Found(examineResult)
          THEN /\ findPc' = "returned"
               /\ findOutcome' = FindElementResult(TRUE)
               /\ UNCHANGED findAttempt
          ELSE IF findAttempt < maxRetries - 1
          THEN /\ findPc' = "delay"
               /\ UNCHANGED <<findAttempt, findOutcome>>
          ELSE /\ findPc' = "attempt"
               /\ findAttempt' = findAttempt + 1
               /\ UNCHANGED findOutcome
  /\ UNCHANGED <<findEntry, maxRetries>>
  /\ UNCHANGED notFind

\* await new Promise((resolve) => setTimeout(resolve, retryDelayMs))
RetryDelay ==
  /\ findPc = "delay"
  /\ findAttempt' = findAttempt + 1
  /\ findPc' = "attempt"
  /\ UNCHANGED <<findEntry, maxRetries, examineLog, findOutcome>>
  /\ UNCHANGED notFind

\* After the loop: the shared function returns {success: false, ...} with
\* the last attempt's data; the agent's method throws HyperagentError 404.
MaxRetriesReached ==
  /\ findPc = "exhausted"
  /\ IF findEntry = "shared"
     THEN /\ findOutcome' = FindElementResult(FALSE)
          /\ findPc' = "returned"
     ELSE /\ findOutcome' = FindError(404)
          /\ findPc' = "threw"
  /\ UNCHANGED <<findEntry, maxRetries, findAttempt, examineLog>>
  /\ UNCHANGED notFind

FindNext ==
  \/ LoopEnds
  \/ FindAttempt
  \/ RetryDelay
  \/ MaxRetriesReached

(***************************************************************************)
(* buildActionCacheEntry stores the xpath of the element an action used,   *)
(* and getElementLocator is called for the same element id and xpath map.  *)
(* An xpath is the sequence of its steps, the empty string the empty       *)
(* sequence.                                                               *)
(***************************************************************************)

\* The xpaths the walk records for documents, elements, comments and text
\* nodes: a text node is a leaf and has an element above it.
CacheXPaths ==
  {<< >>, <<"div[1]">>, <<"svg[1]", "text[1]">>, <<"div[1]", "comment()[1]">>,
   <<"div[1]", "text()[1]">>, <<"div[1]", "p[1]", "text()[12]">>}

\* Element ids: two encoded ids and a string that is none.
CacheElementIds == MappedIds \cup {<<"1">>}

CacheXpathMaps == UNION {[keys -> CacheXPaths] : keys \in SUBSET MappedIds}

\* null, and the value of a call that threw.
NoXPath == <<"null">>

CacheIdle ==
  /\ cacheElementId = << >>
  /\ cacheXpathMap = << >>
  /\ debugXPath = NoXPath
  /\ cachePc = "idle"
  /\ entryXPath = NoXPath
  /\ locatorXPath = NoXPath

CacheInit ==
  /\ cacheElementId \in CacheElementIds
  /\ cacheXpathMap \in CacheXpathMaps
  /\ debugXPath \in CacheXPaths \cup {NoXPath}
  /\ cachePc = "build"
  /\ entryXPath = NoXPath
  /\ locatorXPath = NoXPath

\* Variant that stores the xpath as it is.
normalizeXPathRaw(raw) == IF raw = NoXPath \/ raw = << >> THEN NoXPath ELSE raw

\* normalizeXPath: null for a missing or empty xpath, else
\* raw.replace(TEXT_NODE_SUFFIX, "").
normalizeXPath(raw) ==
  IF raw = NoXPath \/ raw = << >> THEN NoXPath
  ELSE IF raw[Len(raw)] \in TextNodeSteps THEN SubSeq(raw, 1, Len(raw) - 1)
  ELSE raw

\* encodedId ? domState.xpathMap?.[encodedId] || null : null
xpathFromDom(elementId, map) ==
  IF isEncodedId(elementId) /\ elementId \in DOMAIN map
     /\ map[elementId] # << >>
  THEN map[elementId]
  ELSE NoXPath

\* const xpath = normalizeXPath(xpathFromDom || extractXPathFromDebug(...))
BuildActionCacheEntry ==
  /\ cachePc = "build"
  /\ entryXPath' =
       LET fromDom == xpathFromDom(cacheElementId, cacheXpathMap)
       IN  normalizeXPath(IF fromDom # NoXPath THEN fromDom ELSE debugXPath)
  /\ cachePc' = "locate"
  /\ UNCHANGED <<cacheElementId, cacheXpathMap, debugXPath, locatorXPath>>
  /\ UNCHANGED notCache

\* getElementLocator up to its xpath: toEncodedId and a missing rawXpath
\* throw, otherwise the trimmed xpath is the one every return carries.
LocateCachedElement ==
  /\ cachePc = "locate"
  /\ locatorXPath' =
       IF /\ isEncodedId(cacheElementId)
          /\ cacheElementId \in DOMAIN cacheXpathMap
          /\ cacheXpathMap[cacheElementId] # << >>
       THEN TrimTextSegment(cacheXpathMap[cacheElementId])
       ELSE NoXPath
  /\ cachePc' = "done"
  /\ UNCHANGED <<cacheElementId, cacheXpathMap, debugXPath, entryXPath>>
  /\ UNCHANGED notCache

CacheNext ==
  \/ BuildActionCacheEntry
  \/ LocateCachedElement

(***************************************************************************)
(* The action registry of the agent: this.actions starts as a copy of the  *)
(* default actions, and custom actions and the actions of MCP servers are  *)
(* added through registerAction.  The complete action is not in the list:  *)
(* getActions appends it on every read.                                    *)
(***************************************************************************)

MaxRegistrations == 4

\* The default actions defined in the sources at hand.
DEFAULT_ACTIONS == <<"goToUrl", "actElement", "extract", "scroll">>

\* The types a caller or an MCP server may pass.
RegisteredTypes == {"complete", "goToUrl", "scroll", "search", "mcpTool", "pdf"}

NoRegistration == [type |-> "none", outcome |-> "none", statusCode |-> 0]

RegIdle ==
  /\ actions = << >>
  /\ registrations = 0
  /\ lastRegistration = NoRegistration

RegInit ==
  /\ actions = DEFAULT_ACTIONS
  /\ registrations = 0
  /\ lastRegistration = NoRegistration

\* Variant of the duplicate test that finds no type registered.
hasNone(list, type) == FALSE

\* actionsList.has(action.type) for the set of the registered types
actionsListHas(list, type) == \E i \in 1..Len(list) : list[i] = type

\* registerAction(action): the body has no await, so a call runs as a whole.
RegisterAction(type) ==
  /\ registrations < MaxRegistrations
  /\ registrations' = registrations + 1
  /\ IF type = "complete"
     THEN /\ lastRegistration' =
               [type |-> type, outcome |-> "HyperagentError", statusCode |-> 400]
          /\ UNCHANGED actions
     ELSE IF actionsListHas(actions, type)
     THEN /\ lastRegistration' =
               [type |-> type, outcome |-> "Error", statusCode |-> 0]
          /\ UNCHANGED actions
     ELSE /\ actions' = Append(actions, type)
          /\ lastRegistration' =
               [type |-> type, outcome |-> "registered", statusCode |-> 0]
  /\ UNCHANGED notReg

RegNext == \E type \in RegisteredTypes : RegisterAction(type)

(***************************************************************************)
(* Tasks: executeTaskAsync creates the task state, starts runAgentTask     *)
(* without awaiting it and hands out the control object of                 *)
(* getTaskControl.  The loop runs on the event loop: it gives up control   *)
(* at each await, and a pause, resume or cancel call of the holder of the  *)
(* control object runs between two such points.                            *)
(***************************************************************************)

\* Largest params.maxSteps explored, and the cap on currStep without one.
MaxTaskSteps == 2

\* Largest number of actions in one agent output.
MaxStepActions == 2

PENDING == "pending"
RUNNING == "running"
PAUSED == "paused"
CANCELLED == "cancelled"
COMPLETED == "completed"
FAILED == "failed"

TaskStatus == {PENDING, RUNNING, PAUSED, CANCELLED, COMPLETED, FAILED}

endTaskStatuses == {CANCELLED, COMPLETED, FAILED}

\* The action types of an agent output, as far as the loop tells them apart.
StepActionTypes == {"complete", "actElement"}

StepActionLists ==
  UNION {[1..n -> StepActionTypes] : n \in 0..MaxStepActions}

ControlCalls == {"pause", "resume", "cancel"}

TaskIdle ==
  /\ taskStatus = PENDING
  /\ taskPc = "none"
  /\ currStep = 0
  /\ taskMaxSteps = 0
  /\ agentStepActions = << >>
  /\ actionIdx = 0
  /\ lastCall = "none"

TaskInit == TaskIdle

\* Variant of the cancel test that lets every status through.
AnyStatus(status) == TRUE

\* taskState.status !== TaskStatus.COMPLETED
NotCompleted(status) == status # COMPLETED

\* The status checks at the top of the loop, from a status that is not
\* PAUSED: the status and the await the loop reaches next.
LoopTopStatus(status, step) ==
  IF status \in endTaskStatuses THEN status
  ELSE IF taskMaxSteps # 0 /\ step >= taskMaxSteps THEN CANCELLED
  ELSE status

LoopTopPc(status, step) ==
  IF status = PAUSED THEN "sleepTop"
  ELSE IF status \in endTaskStatuses THEN "onComplete"
  ELSE IF taskMaxSteps # 0 /\ step >= taskMaxSteps THEN "onComplete"
  ELSE "getDom"

\* The synchronous start of one action of the step: a complete action sets
\* the status before its awaits.
StartedStatus(type, status) == IF type = "complete" THEN COMPLETED ELSE status

\* executeTaskAsync: the task state is created PENDING, runAgentTask runs
\* up to its first await, and the control object is returned.
ExecuteTaskAsync(steps) ==
  /\ taskPc = "none"
  /\ taskMaxSteps' = steps
  /\ taskStatus' = RUNNING
  /\ taskPc' = "getDom"
  /\ lastCall' = "executeTaskAsync"
  /\ UNCHANGED <<currStep, agentStepActions, actionIdx>>
  /\ UNCHANGED notTask

\* pause() of the control object
Pause ==
  /\ taskPc # "none"
  /\ taskStatus' = IF taskStatus = RUNNING THEN PAUSED ELSE taskStatus
  /\ lastCall' = "pause"
  /\ UNCHANGED <<taskPc, currStep, taskMaxSteps, agentStepActions, actionIdx>>
  /\ UNCHANGED notTask

\* resume() of the control object
Resume ==
  /\ taskPc # "none"
  /\ taskStatus' = IF taskStatus = PAUSED THEN RUNNING ELSE taskStatus
  /\ lastCall' = "resume"
  /\ UNCHANGED <<taskPc, currStep, taskMaxSteps, agentStepActions, actionIdx>>
  /\ UNCHANGED notTask

\* cancel() of the control object
Cancel ==
  /\ taskPc # "none"
  /\ taskStatus' = IF NotCompleted(taskStatus) THEN CANCELLED ELSE taskStatus
  /\ lastCall' = "cancel"
  /\ UNCHANGED <<taskPc, currStep, taskMaxSteps, agentStepActions, actionIdx>>
  /\ UNCHANGED notTask

\* sleep(100) of either paused check is over: continue, to the top checks.
SleepDone ==
  /\ taskPc \in {"sleepTop", "sleepMid"}
  /\ taskStatus' = LoopTopStatus(taskStatus, currStep)
  /\ taskPc' = LoopTopPc(taskStatus, currStep)
  /\ lastCall' = "loop"
  /\ UNCHANGED <<currStep, taskMaxSteps, agentStepActions, actionIdx>>
  /\ UNCHANGED notTask

\* The retried getDom settles: without a DOM state the task fails and the
\* loop breaks; with one the loop goes on to the messages and the LLM.
GetDomDone(ok) ==
  /\ taskPc = "getDom"
  /\ IF ok
     THEN /\ taskPc' = "llm"
          /\ UNCHANGED taskStatus
     ELSE /\ taskStatus' = FAILED
          /\ taskPc' = "onComplete"
  /\ lastCall' = "loop"
  /\ UNCHANGED <<currStep, taskMaxSteps, agentStepActions, actionIdx>>
  /\ UNCHANGED notTask

\* invokeStructured settles without a parsed output: runAgentTask throws.
LlmUnparsed ==
  /\ taskPc = "llm"
  /\ taskPc' = "rejected"
  /\ lastCall' = "loop"
  /\ UNCHANGED <<taskStatus, currStep, taskMaxSteps, agentStepActions,
                 actionIdx>>
  /\ UNCHANGED notTask

\* invokeStructured settles with a parsed output: the second status checks,
\* then the first action of the step up to its awaits.
LlmParsed(list) ==
  /\ taskPc = "llm"
  /\ lastCall' = "loop"
  /\ IF taskStatus = PAUSED
     THEN /\ taskPc' = "sleepMid"
          /\ UNCHANGED <<taskStatus, agentStepActions, actionIdx>>
     ELSE IF taskStatus \in endTaskStatuses
     THEN /\ taskPc' = "onComplete"
          /\ UNCHANGED <<taskStatus, agentStepActions, actionIdx>>
     ELSE /\ agentStepActions' = list
          /\ IF list = << >>
             THEN /\ taskPc' = "onStep"
                  /\ actionIdx' = 0
                  /\ UNCHANGED taskStatus
             ELSE /\ taskPc' = "action"
                  /\ actionIdx' = 1
                  /\ taskStatus' = StartedStatus(list[1], taskStatus)
  /\ UNCHANGED <<currStep, taskMaxSteps>>
  /\ UNCHANGED notTask

\* The awaits of one action are over: the next action starts, or the step
\* is pushed and onStep awaited.
ActionDone ==
  /\ taskPc = "action"
  /\ lastCall' = "loop"
  /\ IF actionIdx < Len(agentStepActions)
     THEN /\ actionIdx' = actionIdx + 1
          /\ taskStatus' =
               StartedStatus(agentStepActions[actionIdx + 1], taskStatus)
          /\ UNCHANGED taskPc
     ELSE /\ taskPc' = "onStep"
          /\ UNCHANGED <<taskStatus, actionIdx>>
  /\ UNCHANGED <<currStep, taskMaxSteps, agentStepActions>>
  /\ UNCHANGED notTask

\* onStep is over: currStep is increased and the loop is back at its top.
OnStepDone ==
  /\ taskPc = "onStep"
  /\ currStep < MaxTaskSteps
  /\ currStep' = currStep + 1
  /\ taskStatus' = LoopTopStatus(taskStatus, currStep + 1)
  /\ taskPc' = LoopTopPc(taskStatus, currStep + 1)
  /\ lastCall' = "loop"
  /\ UNCHANGED <<taskMaxSteps, agentStepActions, actionIdx>>
  /\ UNCHANGED notTask

\* onComplete is over: runAgentTask returns the task output.
OnCompleteDone ==
  /\ taskPc = "onComplete"
  /\ taskPc' = "returned"
  /\ lastCall' = "loop"
  /\ UNCHANGED <<taskStatus, currStep, taskMaxSteps, agentStepActions,
                 actionIdx>>
  /\ UNCHANGED notTask

\* The catch callback of executeTaskAsync runs on the rejected promise.
CatchHandler ==
  /\ taskPc = "rejected"
  /\ taskStatus' = FAILED
  /\ taskPc' = "failed"
  /\ lastCall' = "catch"
  /\ UNCHANGED <<currStep, taskMaxSteps, agentStepActions, actionIdx>>
  /\ UNCHANGED notTask

TaskNext ==
  \/ \E steps \in 0..MaxTaskSteps : ExecuteTaskAsync(steps)
  \/ Pause
  \/ Resume
  \/ Cancel
  \/ SleepDone
  \/ \E ok \in BOOLEAN : GetDomDone(ok)
  \/ LlmUnparsed
  \/ \E list \in StepActionLists : LlmParsed(list)
  \/ ActionDone
  \/ OnStepDone
  \/ OnCompleteDone
  \/ CatchHandler

(***************************************************************************)
(* matchPlaywrightFramesToFrameMap: getA11yDOM calls it on the frameMap    *)
(* buildBackendIdMaps has just returned, in which no entry has a           *)
(* playwrightFrame yet.  It walks the entries in insertion order and, for  *)
(* each, the live frames of the page in the order of page.frames().        *)
(***************************************************************************)

\* Number of frameMap entries besides the main frame.
NumMatchInfos == 2

\* Number of live frames besides the main frame.
NumPwFrames == 2

MatchInfos == 1..NumMatchInfos
PwFrames == 1..NumPwFrames

\* page.mainFrame(), and the value of a playwrightFrame that is not set.
MainHandle == 0
NoHandle == -1

\* src, name and xpath of the frameMap entries explored ("" is not set).
InfoAttrs ==
  { [src |-> "a", name |-> "", xpath |-> "/iframe[1]"],
    [src |-> "", name |-> "n", xpath |-> "/iframe[2]"],
    [src |-> "", name |-> "", xpath |-> ""] }

\* The src and name attributes of the iframe elements explored, with the
\* place of the element in the document of its parent frame.
ElementAttrs ==
  { [src |-> "a", name |-> "", xpath |-> "/iframe[1]"],
    [src |-> "a", name |-> "n", xpath |-> "/iframe[2]"],
    [src |-> "", name |-> "", xpath |-> "/iframe[2]"] }

MatchIdle ==
  /\ matchFrameMap = << >>
  /\ allFrames = << >>
  /\ boundFrame = << >>
  /\ matchedPwFrames = {}
  /\ matchIdx = 0
  /\ pwIdx = 0
  /\ matchPc = "idle"

\* A frameMap whose entries name any other index as their parent, and a
\* frame tree in which a frame is listed after its parent.
MatchInit ==
  /\ matchFrameMap \in
       [MatchInfos -> [parentFrameIndex : 0..NumMatchInfos, attrs : InfoAttrs]]
  /\ \A i \in MatchInfos : matchFrameMap[i].parentFrameIndex # i
  /\ allFrames \in [PwFrames -> [parent : 0..NumPwFrames, attrs : ElementAttrs]]
  /\ \A h \in PwFrames : allFrames[h].parent < h
  /\ boundFrame = [i \in MatchInfos |-> NoHandle]
  /\ matchedPwFrames = {}
  /\ matchIdx = 1
  /\ pwIdx = 0
  /\ matchPc = "outer"

\* verifyFrameMatch without an exception: by src, then by name, then by
\* evaluating the entry's xpath in the parent frame.
verifyFrameMatch(iframeElement, frameInfo) ==
  IF frameInfo.src # "" /\ iframeElement.src # "" /\ iframeElement.src = frameInfo.src
  THEN TRUE
  ELSE IF frameInfo.name # "" /\ iframeElement.name # ""
          /\ iframeElement.name = frameInfo.name
  THEN TRUE
  ELSE IF frameInfo.xpath # ""
  THEN iframeElement.xpath = frameInfo.xpath
  ELSE FALSE

\* expectedParentFrame of the entry, NoHandle when its parent entry is
\* missing or has no playwrightFrame.
expectedParentFrame(i) ==
  LET parentIdx == matchFrameMap[i].parentFrameIndex
  IN  IF parentIdx = 0 THEN MainHandle
      ELSE IF parentIdx \in MatchInfos THEN boundFrame[parentIdx]
      ELSE NoHandle

\* Variant of the matched test that finds no handle matched.
NoneMatched(pwFrame) == FALSE

\* matchedPwFrames.has(pwFrame)
AlreadyMatched(pwFrame) == pwFrame \in matchedPwFrames

\* Variant of the parent test that accepts every parent.
AnyParent(pwFrame, expected) == TRUE

\* pwParentFrame === expectedParentFrame
ParentAsExpected(pwFrame, expected) == allFrames[pwFrame].parent = expected

\* The entry is skipped: it has a playwrightFrame, or its parent entry has
\* none yet.
SkipEntry ==
  /\ matchPc = "outer"
  /\ matchIdx \in MatchInfos
  /\ \/ boundFrame[matchIdx] # NoHandle
     \/ expectedParentFrame(matchIdx) = NoHandle
  /\ matchIdx' = matchIdx + 1
  /\ UNCHANGED <<matchFrameMap, allFrames, boundFrame, matchedPwFrames,
                 pwIdx, matchPc>>
  /\ UNCHANGED notMatch

\* The inner loop over page.frames() starts for the entry.
BeginEntry ==
  /\ matchPc = "outer"
  /\ matchIdx \in MatchInfos
  /\ boundFrame[matchIdx] = NoHandle
  /\ expectedParentFrame(matchIdx) # NoHandle
  /\ pwIdx' = MainHandle
  /\ matchPc' = "inner"
  /\ UNCHANGED <<matchFrameMap, allFrames, boundFrame, matchedPwFrames,
                 matchIdx>>
  /\ UNCHANGED notMatch

\* One round of the inner loop.  elementOk: frameElement() gave an element;
\* verifyOk: the attribute reads and the evaluation did not throw.
TryPwFrame(elementOk, verifyOk) ==
  /\ matchPc = "inner"
  /\ pwIdx <= NumPwFrames
  /\ IF /\ pwIdx # MainHandle
        /\ ~AlreadyMatched(pwIdx)
        /\ elementOk
        /\ ParentAsExpected(pwIdx, expectedParentFrame(matchIdx))
        /\ verifyOk
        /\ verifyFrameMatch(allFrames[pwIdx].attrs,
                            matchFrameMap[matchIdx].attrs)
     THEN /\ matchedPwFrames' = matchedPwFrames \cup {pwIdx}
          /\ boundFrame' = [boundFrame EXCEPT ![matchIdx] = pwIdx]
          /\ matchIdx' = matchIdx + 1
          /\ matchPc' = "outer"
          /\ UNCHANGED pwIdx
     ELSE /\ pwIdx' = pwIdx + 1
          /\ UNCHANGED <<boundFrame, matchedPwFrames, matchIdx, matchPc>>
  /\ UNCHANGED <<matchFrameMap, allFrames>>
  /\ UNCHANGED notMatch

\* The inner loop ended without a match.
NoMatch ==
  /\ matchPc = "inner"
  /\ pwIdx > NumPwFrames
  /\ matchIdx' = matchIdx + 1
  /\ matchPc' = "outer"
  /\ UNCHANGED <<matchFrameMap, allFrames, boundFrame, matchedPwFrames, pwIdx>>
  /\ UNCHANGED notMatch

\* The outer loop is over.
MatchReturns ==
  /\ matchPc = "outer"
  /\ matchIdx > NumMatchInfos
  /\ matchPc' = "returned"
  /\ UNCHANGED <<matchFrameMap, allFrames, boundFrame, matchedPwFrames,
                 matchIdx, pwIdx>>
  /\ UNCHANGED notMatch

MatchNext ==
  \/ SkipEntry
  \/ BeginEntry
  \/ \E elementOk, verifyOk \in BOOLEAN : TryPwFrame(elementOk, verifyOk)
  \/ NoMatch
  \/ MatchReturns

(***************************************************************************)
(* Specifications: one component runs, the others stay idle                *)
(***************************************************************************)

SettleIdle ==
  /\ pc = "idle"
  /\ now = 0
  /\ timeoutMs = DefaultTimeoutMs
  /\ session = "none"
  /\ failed = FALSE
  /\ handlers = {}
  /\ inflight = {}
  /\ meta = << >>
  /\ docByFrame = << >>
  /\ quietTimer = NoTimer
  /\ stalledRequestSweepTimer = NoTimer
  /\ globalTimeout = NoTimer
  /\ waitTimer = NoTimer
  /\ resolvedBy = "none"
  /\ resolvedAt = NoTimer
  /\ emptySince = NoTimer
  /\ persistentSkipped = FALSE

SettleOnlyInit ==
  /\ SettleInit
  /\ FramesIdle
  /\ ReplayIdle
  /\ TreeIdle
  /\ MergeIdle
  /\ CleanIdle
  /\ PathsIdle
  /\ LocIdle
  /\ DispIdle
  /\ ScrollIdle
  /\ FbIdle
  /\ ChunkIdle
  /\ FindIdle
  /\ CacheIdle
  /\ RegIdle
  /\ TaskIdle
  /\ MatchIdle

FramesOnlyInit ==
  /\ FramesInit
  /\ SettleIdle
  /\ ReplayIdle
  /\ TreeIdle
  /\ MergeIdle
  /\ CleanIdle
  /\ PathsIdle
  /\ LocIdle
  /\ DispIdle
  /\ ScrollIdle
  /\ FbIdle
  /\ ChunkIdle
  /\ FindIdle
  /\ CacheIdle
  /\ RegIdle
  /\ TaskIdle
  /\ MatchIdle

ReplayOnlyInit ==
  /\ ReplayInit
  /\ SettleIdle
  /\ FramesIdle
  /\ TreeIdle
  /\ MergeIdle
  /\ CleanIdle
  /\ PathsIdle
  /\ LocIdle
  /\ DispIdle
  /\ ScrollIdle
  /\ FbIdle
  /\ ChunkIdle
  /\ FindIdle
  /\ CacheIdle
  /\ RegIdle
  /\ TaskIdle
  /\ MatchIdle

TreeOnlyInit ==
  /\ TreeInit
  /\ SettleIdle
  /\ FramesIdle
  /\ ReplayIdle
  /\ MergeIdle
  /\ CleanIdle
  /\ PathsIdle
  /\ LocIdle
  /\ DispIdle
  /\ ScrollIdle
  /\ FbIdle
  /\ ChunkIdle
  /\ FindIdle
  /\ CacheIdle
  /\ RegIdle
  /\ TaskIdle
  /\ MatchIdle

MergeOnlyInit ==
  /\ MergeInit
  /\ SettleIdle
  /\ FramesIdle
  /\ ReplayIdle
  /\ TreeIdle
  /\ CleanIdle
  /\ PathsIdle
  /\ LocIdle
  /\ DispIdle
  /\ ScrollIdle
  /\ FbIdle
  /\ ChunkIdle
  /\ FindIdle
  /\ CacheIdle
  /\ RegIdle
  /\ TaskIdle
  /\ MatchIdle

CleanOnlyInit ==
  /\ CleanInit
  /\ SettleIdle
  /\ FramesIdle
  /\ ReplayIdle
  /\ TreeIdle
  /\ MergeIdle
  /\ PathsIdle
  /\ LocIdle
  /\ DispIdle
  /\ ScrollIdle
  /\ FbIdle
  /\ ChunkIdle
  /\ FindIdle
  /\ CacheIdle
  /\ RegIdle
  /\ TaskIdle
  /\ MatchIdle

PathsOnlyInit ==
  /\ PathsInit
  /\ SettleIdle
  /\ FramesIdle
  /\ ReplayIdle
  /\ TreeIdle
  /\ MergeIdle
  /\ CleanIdle
  /\ LocIdle
  /\ DispIdle
  /\ ScrollIdle
  /\ FbIdle
  /\ ChunkIdle
  /\ FindIdle
  /\ CacheIdle
  /\ RegIdle
  /\ TaskIdle
  /\ MatchIdle

LocOnlyInit ==
  /\ LocInit
  /\ SettleIdle
  /\ FramesIdle
  /\ ReplayIdle
  /\ TreeIdle
  /\ MergeIdle
  /\ CleanIdle
  /\ PathsIdle
  /\ DispIdle
  /\ ScrollIdle
  /\ FbIdle
  /\ ChunkIdle
  /\ FindIdle
  /\ CacheIdle
  /\ RegIdle
  /\ TaskIdle
  /\ MatchIdle

DispOnlyInit ==
  /\ DispInit
  /\ SettleIdle
  /\ FramesIdle
  /\ ReplayIdle
  /\ TreeIdle
  /\ MergeIdle
  /\ CleanIdle
  /\ PathsIdle
  /\ LocIdle
  /\ ScrollIdle
  /\ FbIdle
  /\ ChunkIdle
  /\ FindIdle
  /\ CacheIdle
  /\ RegIdle
  /\ TaskIdle
  /\ MatchIdle

ScrollOnlyInit ==
  /\ ScrollInit
  /\ SettleIdle
  /\ FramesIdle
  /\ ReplayIdle
  /\ TreeIdle
  /\ MergeIdle
  /\ CleanIdle
  /\ PathsIdle
  /\ LocIdle
  /\ DispIdle
  /\ FbIdle
  /\ ChunkIdle
  /\ FindIdle
  /\ CacheIdle
  /\ RegIdle
  /\ TaskIdle
  /\ MatchIdle

FbOnlyInit ==
  /\ FbInit
  /\ SettleIdle
  /\ FramesIdle
  /\ ReplayIdle
  /\ TreeIdle
  /\ MergeIdle
  /\ CleanIdle
  /\ PathsIdle
  /\ LocIdle
  /\ DispIdle
  /\ ScrollIdle
  /\ ChunkIdle
  /\ FindIdle
  /\ CacheIdle
  /\ RegIdle
  /\ TaskIdle
  /\ MatchIdle

ChunkOnlyInit ==
  /\ ChunkInit
  /\ SettleIdle
  /\ FramesIdle
  /\ ReplayIdle
  /\ TreeIdle
  /\ MergeIdle
  /\ CleanIdle
  /\ PathsIdle
  /\ LocIdle
  /\ DispIdle
  /\ ScrollIdle
  /\ FbIdle
  /\ FindIdle
  /\ CacheIdle
  /\ RegIdle
  /\ TaskIdle
  /\ MatchIdle

FindOnlyInit ==
  /\ FindInit
  /\ SettleIdle
  /\ FramesIdle
  /\ ReplayIdle
  /\ TreeIdle
  /\ MergeIdle
  /\ CleanIdle
  /\ PathsIdle
  /\ LocIdle
  /\ DispIdle
  /\ ScrollIdle
  /\ FbIdle
  /\ ChunkIdle
  /\ CacheIdle
  /\ RegIdle
  /\ TaskIdle
  /\ MatchIdle

CacheOnlyInit ==
  /\ CacheInit
  /\ SettleIdle
  /\ FramesIdle
  /\ ReplayIdle
  /\ TreeIdle
  /\ MergeIdle
  /\ CleanIdle
  /\ PathsIdle
  /\ LocIdle
  /\ DispIdle
  /\ ScrollIdle
  /\ FbIdle
  /\ ChunkIdle
  /\ FindIdle
  /\ RegIdle
  /\ TaskIdle
  /\ MatchIdle

RegOnlyInit ==
  /\ RegInit
  /\ SettleIdle
  /\ FramesIdle
  /\ ReplayIdle
  /\ TreeIdle
  /\ MergeIdle
  /\ CleanIdle
  /\ PathsIdle
  /\ LocIdle
  /\ DispIdle
  /\ ScrollIdle
  /\ FbIdle
  /\ ChunkIdle
  /\ FindIdle
  /\ CacheIdle
  /\ TaskIdle
  /\ MatchIdle

TaskOnlyInit ==
  /\ TaskInit
  /\ SettleIdle
  /\ FramesIdle
  /\ ReplayIdle
  /\ TreeIdle
  /\ MergeIdle
  /\ CleanIdle
  /\ PathsIdle
  /\ LocIdle
  /\ DispIdle
  /\ ScrollIdle
  /\ FbIdle
  /\ ChunkIdle
  /\ FindIdle
  /\ CacheIdle
  /\ RegIdle
  /\ MatchIdle

MatchOnlyInit ==
  /\ MatchInit
  /\ SettleIdle
  /\ FramesIdle
  /\ ReplayIdle
  /\ TreeIdle
  /\ MergeIdle
  /\ CleanIdle
  /\ PathsIdle
  /\ LocIdle
  /\ DispIdle
  /\ ScrollIdle
  /\ FbIdle
  /\ ChunkIdle
  /\ FindIdle
  /\ CacheIdle
  /\ RegIdle
  /\ TaskIdle

SpecSettle == SettleOnlyInit /\ [][SettleNext]_vars
SpecFrames == FramesOnlyInit /\ [][FramesNext]_vars
SpecReplay == ReplayOnlyInit /\ [][ReplayNext]_vars
SpecTree == TreeOnlyInit /\ [][TreeNext]_vars
SpecMerge == MergeOnlyInit /\ [][MergeNext]_vars
SpecClean == CleanOnlyInit /\ [][CleanNext]_vars
SpecPaths == PathsOnlyInit /\ [][PathsNext]_vars /\ WF_vars(PathsNext)
SpecLoc == LocOnlyInit /\ [][LocNext]_vars
SpecDisp == DispOnlyInit /\ [][DispNext]_vars
SpecScroll == ScrollOnlyInit /\ [][ScrollNext]_vars
SpecFb == FbOnlyInit /\ [][FbNext]_vars
SpecChunk == ChunkOnlyInit /\ [][ChunkNext]_vars /\ WF_vars(ChunkNext)
SpecFind == FindOnlyInit /\ [][FindNext]_vars
SpecCache == CacheOnlyInit /\ [][CacheNext]_vars
SpecReg == RegOnlyInit /\ [][RegNext]_vars
SpecTask == TaskOnlyInit /\ [][TaskNext]_vars
SpecMatch == MatchOnlyInit /\ [][MatchNext]_vars

(***************************************************************************)
(* Claims about waitForSettledDOM                                          *)
(***************************************************************************)

\* C1: a quiet timer is never pending while a tracked request is in flight
\* (every tracked requestWillBeSent cancels it), and a resolution by the
\* quiet path happens only with the in-flight set empty and at least one
\* quiet window (500 ms) after the set last became empty.
C1_QuietOnlyAfterWindow ==
  /\ inflight # {} => quietTimer = NoTimer
  /\ resolvedBy = "quiet" =>
       /\ inflight = {}
       /\ emptySince # NoTimer
       /\ resolvedAt - emptySince >= Ticks(QuietWindowMs)

\* A quiet resolution after tracked requests came and went: the set became
\* empty later than the watching can have started.
C1_Witness ==
  /\ resolvedBy = "quiet"
  /\ pc = "returned"
  /\ emptySince > MaxLoadWaitTicks

\* The longest delay the function adds by itself: the fixed fallback wait.
EpsilonTicks == Ticks(FallbackWaitMs)

\* C2: the call returns no later than timeoutMs plus a small bounded delay
\* after the call, whatever the network does.
C2_ReturnsWithinTimeout ==
  pc = "returned" => now <= Ticks(timeoutMs) + EpsilonTicks

\* C3: when the call has returned, no handler is registered, the quiet,
\* sweep and global timers are cancelled and the CDP session is not attached.
C3_ReleasedOnReturn ==
  pc = "returned" =>
    /\ handlers = {}
    /\ quietTimer = NoTimer
    /\ stalledRequestSweepTimer = NoTimer
    /\ globalTimeout = NoTimer
    /\ session # "attached"

\* A return by the global timeout with requests still in flight, after the
\* handlers had been registered and the session detached.
C3_Witness ==
  /\ pc = "returned"
  /\ resolvedBy = "timeout"
  /\ inflight # {}
  /\ session = "detached"

\* C14: while the call waits, no tracked request has been outstanding (since
\* its latest requestWillBeSent) for longer than the stall threshold plus one
\* sweep interval.
C14_StalledRequestsSwept ==
  pc = "waiting" =>
    \A id \in inflight :
      /\ id \in DOMAIN meta
      /\ now - meta[id] <= Ticks(StallThresholdMs) + Ticks(SweepIntervalMs)

\* A quiet resolution before the global timeout although a document request
\* never finished: its docByFrame entry is still there, which only the sweep
\* leaves behind.
C14_Witness ==
  /\ pc = "returned"
  /\ resolvedBy = "quiet"
  /\ resolvedAt < Ticks(timeoutMs)
  /\ \E f \in DOMAIN docByFrame : docByFrame[f] \notin DOMAIN meta

\* C15: once the in-flight set is empty and stays empty, the call resolves
\* within the quiet window plus one sweep interval.
C15_ResolvesAfterLastFinish ==
  /\ (pc = "waiting" /\ inflight = {}) =>
        /\ quietTimer # NoTimer
        /\ now - emptySince <= Ticks(QuietWindowMs) + Ticks(SweepIntervalMs)
  /\ resolvedBy = "quiet" =>
        resolvedAt - emptySince <= Ticks(QuietWindowMs) + Ticks(SweepIntervalMs)

\* A quiet resolution exactly one quiet window after the last tracked request
\* finished by itself (nothing was swept: no metadata is left over).
C15_Witness ==
  /\ resolvedBy = "quiet"
  /\ emptySince > MaxLoadWaitTicks
  /\ resolvedAt = emptySince + Ticks(QuietWindowMs)
  /\ docByFrame = << >>
  /\ ~persistentSkipped

\* C16: when the session cannot be created the call does not throw, and the
\* fallback wait it performs is the fixed one.
C16_SetupFailureFallsBack ==
  /\ session = "none" => pc # "threw"
  /\ pc = "fallbackWait" =>
        /\ waitTimer # NoTimer
        /\ waitTimer - now <= Ticks(FallbackWaitMs)

\* C17: a requestWillBeSent event of type WebSocket or EventSource leaves
\* the in-flight set, the request metadata and the quiet timer as they were.
C17_PersistentConnectionsIgnored ==
  [][(\E id \in RequestIds, f \in FrameIds \cup {NoFrame},
         type \in {"WebSocket", "EventSource"} :
           OnRequestWillBeSent(id, type, f))
       => UNCHANGED <<inflight, meta, docByFrame, quietTimer, emptySince>>]_vars

\* A socket opened while the quiet timer was pending, and the timer fired one
\* quiet window after the set had become empty all the same.
C17_Witness ==
  /\ persistentSkipped
  /\ resolvedBy = "quiet"
  /\ resolvedAt = emptySince + Ticks(QuietWindowMs)

(***************************************************************************)
(* Claims about frame graph discovery                                      *)
(***************************************************************************)

RECURSIVE Depth(_)
Depth(f) == IF parentFrame[f] = MainFrame THEN 1 ELSE 1 + Depth(parentFrame[f])

\* The frame whose document's walk meets the same-origin frame f: the
\* nearest ancestor that is out-of-process, or the main frame.
RECURSIVE HostOf(_)
HostOf(f) ==
  IF parentFrame[f] = MainFrame \/ oopif[parentFrame[f]]
  THEN parentFrame[f]
  ELSE HostOf(parentFrame[f])

ParentIndexed(f) ==
  parentFrame[f] = MainFrame \/ indexOf[parentFrame[f]] # Null

\* No frame one level down has started while a frame of this level has not
\* returned.
WaveBarrier ==
  \A f, g \in Frames :
    (Depth(g) = Depth(f) + 1 /\ fpc[g] # "idle") => fpc[f] = "done"

ActualParentIndex(f) ==
  IF parentFrame[f] = MainFrame THEN 0 ELSE indexOf[parentFrame[f]]

\* C5: every frameMap entry has a non-null parentFrameIndex, and the entry
\* of an out-of-process frame carries the index of its actual parent frame.
C5_ParentIndexRecorded ==
  \A i \in DOMAIN frameMap :
    /\ frameMap[i].parentFrameIndex # Null
    /\ frameMap[i].playwrightFrame =>
         frameMap[i].parentFrameIndex = ActualParentIndex(frameMap[i].frame)

\* C6: no two frames hold the same frame index and no frameMap entry has
\* been replaced by the entry of another frame.
C6_NoIndexCollision ==
  /\ overwritten = {}
  /\ \A f, g \in Frames :
       (f # g /\ indexOf[f] # Null) => indexOf[f] # indexOf[g]

(***************************************************************************)
(* Claims about cached-action replay                                       *)
(***************************************************************************)

Started(i) == attemptState[i] # "none"
Running(i) == attemptState[i] \in {"settling", "capturing", "resolving", "performing"}
Failed(i) == attemptState[i] \in {"rejected", "unsuccessful"}

\* The entry is an element action the retry loop accepts.
Replayable ==
  /\ cachedAction.actionType = "actElement"
  /\ cachedAction.xpath
  /\ cachedAction.method

\* C7: at most maxSteps attempts are made, one at a time and in order, each
\* starts with the settle wait followed by a fresh capture, and no attempt
\* follows a successful one.
C7_BoundedSequentialAttempts ==
  /\ Cardinality({i \in Attempts : Started(i)}) <= maxSteps
  /\ Cardinality({i \in Attempts : Running(i)}) <= 1
  /\ \A i \in Attempts : (Started(i) /\ i > 1) => Failed(i - 1)
  /\ \A i \in Attempts :
       /\ Len(attemptLog[i]) >= 1 => attemptLog[i][1] = "settle"
       /\ Len(attemptLog[i]) >= 2 => attemptLog[i][2] = "captureFresh"
       /\ attemptState[i] \in {"resolving", "performing", "succeeded", "unsuccessful"}
            => Len(attemptLog[i]) >= 2
  /\ \A i, j \in Attempts :
       (attemptState[i] = "succeeded" /\ j > i) => ~Started(j)

\* The third of three attempts succeeded after two failures.
C7_Witness ==
  /\ maxSteps = DefaultMaxSteps
  /\ Failed(1) /\ Failed(2)
  /\ attemptState[3] = "succeeded"
  /\ rpc = "returned"

\* The hook is due: it is configured and all maxSteps attempts have failed.
HookDue ==
  /\ performFallback
  /\ Replayable
  /\ \A i \in 1..maxSteps : Failed(i)

\* C8: the hook is invoked at most once, only when it is due, and always
\* when it is due by the time the call ends; its result is tagged
\* fallbackUsed with retries = maxSteps, and the result of a successful
\* cached attempt is tagged fallbackUsed = false.
C8_FallbackExactlyWhenDue ==
  /\ hookCalls <= 1
  /\ hookCalls = 1 => HookDue
  /\ (rpc \in {"returned", "threw"} /\ HookDue) => hookCalls = 1
  /\ (rpc = "returned" /\ hookCalls = 1) =>
       (result.meta /\ result.fallbackUsed /\ result.retries = maxSteps)
  /\ (rpc = "returned" /\ \E i \in Attempts : attemptState[i] = "succeeded") =>
       (result.meta /\ ~result.fallbackUsed /\ result.status = "completed")

\* Three attempts failed and the hook's result was returned.
C8_Witness ==
  /\ rpc = "returned"
  /\ maxSteps = DefaultMaxSteps
  /\ hookCalls = 1
  /\ result.fallbackUsed
  /\ result.retries = DefaultMaxSteps

\* C9: runCachedStep never throws; whatever fails, it returns a result whose
\* status is COMPLETED or FAILED.
C9_NeverThrows ==
  /\ rpc # "threw"
  /\ rpc = "returned" => result.status \in {"completed", "failed"}

(***************************************************************************)
(* Claims about EncodedIds                                                 *)
(***************************************************************************)

\* The EncodedIds pass 1 has stored with more than one node.
SharedEncodedIds ==
  {nodeMap[n] : n \in {m \in DOMAIN nodeMap :
                         /\ nodeMap[m] # NoEncodedId
                         /\ \E k \in DOMAIN nodeMap : k # m /\ nodeMap[k] = nodeMap[m]}}

\* C10: whenever an EncodedId is produced a second time, by the walk or by
\* the tree builder, the collision has been logged.
C10_CollisionsLogged ==
  /\ walkRevisits \subseteq errorLog
  /\ SharedEncodedIds \subseteq errorLog

(***************************************************************************)
(* Claims about mergeTreeResults                                           *)
(***************************************************************************)

\* The results merged so far that record an element under `id`.
MergedWith(id) ==
  {i \in 1..(mergePos - 1) : id \in DOMAIN treeResults[i].idToElement}

FirstWith(id) == CHOOSE i \in MergedWith(id) : \A j \in MergedWith(id) : i <= j

\* C11: an EncodedId met in two frame results is flagged, and the element
\* and XPath recorded first under it are still the ones in the merged maps.
C11_DuplicateIdFlagged ==
  \A id \in MergeIds :
    Cardinality(MergedWith(id)) >= 2 =>
      /\ id \in mergeFlagged
      /\ allElements[id] = treeResults[FirstWith(id)].idToElement[id]

(***************************************************************************)
(* Claims about the tree cleaner                                           *)
(***************************************************************************)

\* A node with a non-empty name, a child, or an interactive role.
Meaningful(node) ==
  \/ node.name # ""
  \/ node.children # << >>
  \/ isInteractive(node.role)

RECURSIVE AllMeaningful(_)
AllMeaningful(node) ==
  /\ Meaningful(node)
  /\ \A i \in 1..Len(node.children) : AllMeaningful(node.children[i])

\* C12: every node of the cleaned tree has a non-empty name, at least one
\* child, or an interactive role.
C12_CleanedNodesMeaningful ==
  \A i \in 1..Len(cleanedRoots) : AllMeaningful(cleanedRoots[i])

(***************************************************************************)
(* Claims about XPath synthesis                                            *)
(***************************************************************************)

\* An XPath node test against a child node: text() selects text nodes,
\* comment() comment nodes, a name test the elements of that name.
MatchesTest(c, test) ==
  IF test = "text()" THEN NodeType(dom.nodeName[c]) = 3
  ELSE IF test = "comment()" THEN NodeType(dom.nodeName[c]) = 8
  ELSE NodeType(dom.nodeName[c]) = 1 /\ lc(dom.nodeName[c]) = test

\* document.evaluate(path, ...).singleNodeValue from node `n` on, 0 for null:
\* each step takes the idx-th child that passes the node test.
RECURSIVE Evaluate(_, _)
Evaluate(n, path) ==
  IF path = << >> THEN n
  ELSE LET matching == SelectSeq(Kids(n), LAMBDA c : MatchesTest(c, Head(path).test))
       IN  IF Head(path).idx <= Len(matching)
           THEN Evaluate(matching[Head(path).idx], Tail(path))
           ELSE 0

\* The documents CDP returns: every node has a backendNodeId of its own.
DistinctBackendIds ==
  \A n, k \in DomNodes :
    /\ dom.backendNodeId[n] # 0
    /\ n # k => dom.backendNodeId[n] # dom.backendNodeId[k]

\* C13: once the walk has returned, the XPath recorded for a node evaluates
\* to that node on the document walked.
C13_XPathRoundTrip ==
  (tpc # "walk" /\ DistinctBackendIds) =>
    \A n \in DomNodes :
      LET encodedId == createEncodedId(MainFrame, dom.backendNodeId[n]) IN
      encodedId \in DOMAIN xpathMap => Evaluate(1, xpathMap[encodedId]) = n

\* C25: the replay of a goToUrl or "complete" entry never starts an attempt
\* (no capture, no resolution, no dispatch, no retry) and never calls the
\* fallback hook; "complete" returns COMPLETED without a navigation or a
\* dirty snapshot; a goToUrl entry with a recorded URL has navigated once
\* and marked the snapshot dirty when it returns COMPLETED.
C25_NavigationAndCompleteBypass ==
  cachedAction.actionType \in {"goToUrl", "complete"} =>
    /\ attempt = 0 /\ hookCalls = 0
    /\ \A i \in Attempts : attemptState[i] = "none" /\ attemptLog[i] = << >>
    /\ navigations <= 1
    /\ cachedAction.actionType = "complete" =>
         /\ navigations = 0 /\ ~domDirty
         /\ rpc \in {"start", "returned"}
         /\ rpc = "returned" => result = CachedResult("completed", 1)
    /\ (cachedAction.actionType = "goToUrl" /\ rpc = "returned") =>
         IF cachedAction.url
         THEN /\ navigations = 1 /\ domDirty
              /\ result = CachedResult("completed", 1)
         ELSE navigations = 0 /\ ~domDirty /\ result = BareResult("failed")

\* A returned replay of a navigation entry, however many attempts the
\* caller allowed.
C25_Witness ==
  /\ cachedAction.actionType = "goToUrl"
  /\ rpc = "returned"
  /\ navigations = 1 /\ domDirty
  /\ maxSteps = MaxStepsLimit

(***************************************************************************)
(* Claims about frame ancestry labels                                      *)
(***************************************************************************)

\* The entries whose parent chain comes back to themselves.
RECURSIVE OnCycle(_, _, _)
OnCycle(f, g, n) ==
  /\ n > 0
  /\ g \in DOMAIN pathsFrameMap
  /\ \/ pathsFrameMap[g].parentFrameIndex = f
     \/ OnCycle(f, pathsFrameMap[g].parentFrameIndex, n - 1)

DanglingParent(f) ==
  pathsFrameMap[f].parentFrameIndex \notin
    DOMAIN pathsFrameMap \cup {Null, MainFrame}

\* C18: buildFramePaths terminates for every frame map, cyclic or dangling
\* parent links included (no walk collects more labels than there are
\* entries plus one missing frame, and the function returns), and when it
\* has returned every entry of the map has a path label.
C18_FramePathsTerminate ==
  /\ [](Len(pathSegments) <= Cardinality(DOMAIN pathsFrameMap) + 1)
  /\ <>(pathsPc = "done")
  /\ [](pathsPc = "done" =>
         \A f \in DOMAIN pathsFrameMap : framePath[f] # NoPath)

\* A returned call on a map that has both a cycle of two or more frames and
\* an entry whose parent is missing.
C18_Witness ==
  /\ pathsPc = "done"
  /\ \E f \in DOMAIN pathsFrameMap :
       /\ pathsFrameMap[f].parentFrameIndex # f
       /\ OnCycle(f, f, NumPathFrames)
       /\ Len(framePath[f]) >= 2
  /\ \E f \in DOMAIN pathsFrameMap :
       DanglingParent(f) /\ framePath[f] = <<pathsFrameMap[f].parentFrameIndex, f>>

(***************************************************************************)
(* Claims about getElementLocator                                          *)
(***************************************************************************)

Threw(errorMsg) ==
  locOutcome.kind = "threw" /\ locOutcome.message = errorMsg

HasXpathEntry == locElementId \in DOMAIN locXpathMap

LocFrameIndex == parseInt(FirstPiece(locElementId))

\* C19: a finished call has thrown only typed errors: "element not found"
\* exactly when the id has no entry in the xpath map, "frame not found"
\* exactly when the id's non-zero frame index has no entry in the frame map,
\* "frame resolution failed" exactly when the frame has no bound handle and
\* the lazy walk yields none; in every other case it has returned a locator.
C19_ThreeTypedErrors ==
  locPc = "done" =>
    /\ locOutcome.kind = "threw" => locOutcome.type = "HyperagentError"
    /\ Threw("not found in xpath map") <=> ~HasXpathEntry
    /\ Threw("Frame metadata not found") <=>
         /\ HasXpathEntry
         /\ LocFrameIndex # 0
         /\ LocFrameIndex \notin DOMAIN locFrameMap
    /\ Threw("Could not resolve frame") <=>
         /\ HasXpathEntry
         /\ LocFrameIndex \in DOMAIN locFrameMap
         /\ ~locFrameMap[LocFrameIndex].playwrightFrame
         /\ locTargetFrame = Null

(***************************************************************************)
(* Claims about action dispatch                                            *)
(***************************************************************************)

\* C20: a finished dispatch of a method name outside the vocabulary has
\* raised a typed error and has made no call on the element's locator.
C20_UnknownMethodTypedError ==
  (dispPc = "done" /\ method \notin AGENT_ELEMENT_ACTIONS) =>
    /\ locatorCalls = << >>
    /\ dispOutcome.kind = "threw"
    /\ dispOutcome.type = "HyperagentError"

DispatchFailed ==
  \/ dispOutcome.kind = "threw"
  \/ dispOutcome.kind = "returned" /\ dispEntry = "actElement"
       /\ ~dispOutcome.success

Parts(message) == {message[i] : i \in 1..Len(message)}

\* C21: in a finished dispatch that reached the switch, for click the
\* in-page click was attempted exactly when the primary click failed, the
\* dispatch failed exactly when both failed and its error then carries both
\* messages; for every other method exactly one locator call was made.
C21_ClickTwoStageFallback ==
  (dispPc = "done" /\ locatorCalls # << >>) =>
    IF method = "click"
    THEN /\ Len(locatorCalls) = 2 <=> locatorCalls[1].error # NoError
         /\ DispatchFailed <=>
              /\ Len(locatorCalls) = 2
              /\ locatorCalls[1].error # NoError
              /\ locatorCalls[2].error # NoError
         /\ DispatchFailed =>
              {locatorCalls[1].error, locatorCalls[2].error}
                \subseteq Parts(dispOutcome.message)
    ELSE Len(locatorCalls) = 1

(***************************************************************************)
(* Claims about scrollTo                                                   *)
(***************************************************************************)

\* The argument is a number, or a string that reads as one.
IsPercentage(arg) ==
  \/ arg.kind = "number"
  \/ arg.kind = "string" /\ arg.text = "numeral"

\* Where the element ends up when it is scrolled to the percentage pct.
PositionAt(pct) ==
  Scrolled(((element.scrollHeight - element.clientHeight) * pct) \div 100,
           element)

IsScrollable ==
  element.tag = "html" \/ element.scrollHeight > element.clientHeight

\* C22: every scrollTo with an input below 0 uses the percentage 0 and
\* scrolls to where 0 scrolls to, and every input above 100 uses 100 and
\* scrolls to where 100 scrolls to.
C22_ClampsToRange ==
  \A i \in DOMAIN scrollLog :
    LET call == scrollLog[i] IN
    IsPercentage(call.arg) =>
      /\ call.arg.value < 0 =>
           /\ call.yPct = 0
           /\ IsScrollable => call.scrollTop = PositionAt(0)
           /\ ~IsScrollable => call.block = "start"
      /\ call.arg.value > 100 =>
           /\ call.yPct = 100
           /\ IsScrollable => call.scrollTop = PositionAt(100)
           /\ ~IsScrollable => call.block = "end"

\* An input of 150 scrolled an element that was at the top to its bottom,
\* and an input of -10 then scrolled it back to the top.
C22_Witness ==
  /\ Len(scrollLog) = 2
  /\ IsPercentage(scrollLog[1].arg) /\ scrollLog[1].arg.value > 100
  /\ scrollLog[1].scrollTop = element.scrollHeight - element.clientHeight
  /\ scrollLog[1].scrollTop > 0
  /\ IsPercentage(scrollLog[2].arg) /\ scrollLog[2].arg.value < 0
  /\ scrollLog[2].scrollTop = 0

\* C23: a scrollTo that follows one with the same argument leaves the
\* position, and the alignment, where the first one left them.
C23_ScrollToIdempotent ==
  \A i \in DOMAIN scrollLog :
    (i > 1 /\ scrollLog[i].arg = scrollLog[i - 1].arg) =>
      /\ scrollLog[i].scrollTop = scrollLog[i - 1].scrollTop
      /\ scrollLog[i].block = scrollLog[i - 1].block

\* The same percentage applied twice to a scrollable element, ending
\* strictly between its top and its bottom.
C23_Witness ==
  /\ Len(scrollLog) = 2
  /\ scrollLog[1].arg = scrollLog[2].arg
  /\ scrollTop > 0
  /\ scrollTop < element.scrollHeight - element.clientHeight

\* C24: for a percentage p in [0, 100], given as a number or as a string
\* with or without "%", scrollTo on a scrollable element targets
\* (scrollHeight - clientHeight) * p / 100.
C24_TargetOffset ==
  \A i \in DOMAIN scrollLog :
    LET call == scrollLog[i] IN
    (/\ IsPercentage(call.arg)
     /\ call.arg.value >= 0 /\ call.arg.value <= 100
     /\ element.scrollHeight > element.clientHeight) =>
      call.target =
        ((element.scrollHeight - element.clientHeight) * call.arg.value)
          \div 100

(***************************************************************************)
(* Claims about the DOM fallback                                           *)
(***************************************************************************)

InteractiveTagRoles ==
  {<<"input", "textbox">>, <<"textarea", "textbox">>, <<"button", "button">>,
   <<"a", "link">>, <<"select", "combobox">>}

\* The encoded ids of the frame whose tag is one of the five.
InteractiveTagged(frameIdx) ==
  {e \in DOMAIN fbTagNameMap :
     /\ e[1] = frameIdx
     /\ \E tr \in InteractiveTagRoles : tr[1] = fbTagNameMap[e]}

\* C26: for the frame whose nodes were just collected, the main frame
\* included: when the fetched AX nodes hold no interactive element and the
\* tag map has an input, textarea, button, a or select of that frame, the
\* collected nodes are one fallback node per such element, with the role
\* textbox, textbox, button, link or combobox.
C26_FallbackNodesUsed ==
  (/\ fbFrameIndex # Null
   /\ ~hasInteractiveElements(fbFetched)
   /\ InteractiveTagged(fbFrameIndex) # {}) =>
    /\ \A e \in InteractiveTagged(fbFrameIndex) :
         \E node \in fbCollected :
           /\ node.nodeId = <<"dom", e>>
           /\ <<fbTagNameMap[e], node.role>> \in InteractiveTagRoles
    /\ \A node \in fbCollected : node.nodeId[1] = "dom"

(***************************************************************************)
(* Claims about structural wrappers and select retagging                   *)
(***************************************************************************)

\* The nodes of a cleaned subtree.
RECURSIVE CleanedNodesUnder(_)
CleanedNodesUnder(node) ==
  {node} \cup UNION {CleanedNodesUnder(node.children[i]) :
                       i \in 1..Len(node.children)}

\* The nodes of the cleaned tree.
CleanedNodes ==
  UNION {CleanedNodesUnder(cleanedRoots[i]) : i \in 1..Len(cleanedRoots)}

\* Role and recorded tag name the accessibility tree gave a cleaned node.
AxRole(node) == axTree.roleTag[node.nodeId][1]
AxTag(node) == axTree.roleTag[node.nodeId][2]

C28_ComboboxSelectRetagged ==
  \A node \in CleanedNodes :
    AxRole(node) = "combobox" /\ AxTag(node) = "select" =>
      node.role = "select"

(***************************************************************************)
(* Claims about nextChunk and prevChunk                                    *)
(***************************************************************************)

\* C29: nextChunk and prevChunk return only after two consecutive reads of
\* the scroll position were equal, and they return in every run in which
\* the scroll position eventually stops changing.
C29_ReturnsOnceScrollStable ==
  /\ [](chunkPc = "returned" => Len(reads) = 2 /\ reads[1] = reads[2])
  /\ (<>[][FALSE]_elScrollTop => <>(chunkPc = "returned"))

\* nextChunk returned after the smooth scroll took the element to the end of
\* its range, where two reads in a row were equal.
C29_Witness ==
  /\ chunkPc = "returned"
  /\ chunkMethod = "nextChunk"
  /\ elScrollTop = MaxScrollTop
  /\ last = MaxScrollTop
  /\ reads = <<MaxScrollTop, MaxScrollTop>>

(***************************************************************************)
(* Claims about protocol errors during frame processing                    *)
(***************************************************************************)

\* C30: a protocol error raised while one frame is processed (in its DOM
\* walk or in its accessibility fetch) leaves only that frame unusable: the
\* extraction pass is never rejected, so the trees of the other frames are
\* still returned.
C30_FrameErrorsContained ==
  (walkFailed # {} \/ \E f \in Frames : fpc[f] = "failed") =>
    extractPc # "rejected"

(***************************************************************************)
(* Claims about the fallback hook of the replay                            *)
(***************************************************************************)

\* C31: with a fallback hook configured, a replay of a cached element
\* action that was not carried out from the cache (an entry without an
\* XPath or a method included) returns the hook's result tagged
\* fallbackUsed; the bare failure result is returned only without a hook.
C31_HookResultWheneverConfigured ==
  (/\ rpc = "returned"
   /\ cachedAction.actionType = "actElement"
   /\ \A i \in Attempts : attemptState[i] # "succeeded") =>
    /\ performFallback => result.meta /\ result.fallbackUsed
    /\ ~result.fallbackUsed /\ result.status = "failed" => ~performFallback

(***************************************************************************)
(* Claims about element finding                                            *)
(***************************************************************************)

\* Every one of the maxRetries attempts (at least one) ran and none found
\* an element.
NoElementFound ==
  /\ maxRetries >= 1
  /\ Len(examineLog) = maxRetries
  /\ \A i \in 1..Len(examineLog) : examineLog[i] \in {"empty", "null"}

\* C32: findElementWithInstruction throws an error when no element was
\* found after all maxRetries attempts.
C32_ThrowsWhenNotFound ==
  (/\ findEntry = "shared"
   /\ findPc \in {"returned", "threw"}
   /\ NoElementFound) =>
    findOutcome.kind = "threw"

(***************************************************************************)
(* Claims about frame resolution in the locator                            *)
(***************************************************************************)

\* The call got past the xpath lookup with a non-zero frame index whose
\* frame map entry exists.
InMappedFrame ==
  /\ isEncodedId(locElementId)
  /\ ~NoRawXpath
  /\ LocFrameIndex # 0
  /\ LocFrameIndex \in DOMAIN locFrameMap

\* C33: getElementLocator consults the frame map only for non-zero frame
\* indices: for frame index 0 it resolves against the root document, for a
\* frame with a bound live handle it uses that handle without resolving
\* again, and the lazy XPath walk is invoked exactly when the frame has no
\* bound handle.
C33_FrameMapOnlyForIframes ==
  /\ locCalls \cap {"frameMap.has", "frameMap.get"} # {} => LocFrameIndex # 0
  /\ locPc = "done" =>
       /\ (isEncodedId(locElementId) /\ ~NoRawXpath /\ LocFrameIndex = 0) =>
            /\ locCalls = {"page.locator"}
            /\ locOutcome =
                 Located(0, TrimTextSegment(locXpathMap[locElementId]))
       /\ (InMappedFrame /\ locFrameMap[LocFrameIndex].playwrightFrame) =>
            /\ locCalls = {"frameMap.has", "frameMap.get", "targetFrame.locator"}
            /\ locOutcome.kind = "returned"
            /\ locOutcome.frame = LocFrameIndex
       /\ "resolveFrameByXPath" \in locCalls <=>
            (InMappedFrame /\ ~locFrameMap[LocFrameIndex].playwrightFrame)

\* A call for an element of frame 1, whose entry has no bound handle, went
\* through the lazy walk and returned the frame's locator.
C33_Witness ==
  /\ locPc = "done"
  /\ locOutcome.kind = "returned"
  /\ locOutcome.frame = 1
  /\ "resolveFrameByXPath" \in locCalls
  /\ 1 \in DOMAIN locFrameMap
  /\ ~locFrameMap[1].playwrightFrame
  /\ LocFrameIndex = 1

(***************************************************************************)
(* Claims about trailing text-node trimming                                *)
(***************************************************************************)

\* The xpath ends in a text() step.
EndsInTextStep(xpath) ==
  /\ xpath # NoXPath
  /\ xpath # << >>
  /\ xpath[Len(xpath)] \in {"text()[1]", "text()[12]"}

\* The xpaths of the call: the entries of the xpath map and the debug xpath.
XPathsAtHand ==
  {cacheXpathMap[id] : id \in DOMAIN cacheXpathMap} \cup ({debugXPath} \ {NoXPath})

C35_RegistryDistinctWithoutComplete ==
  /\ [](/\ \A i, j \in 1..Len(actions) : actions[i] = actions[j] => i = j
        /\ \A i \in 1..Len(actions) : actions[i] # "complete")
  /\ [][LET type == lastRegistration'.type
        IN  IF type = "complete" \/ \E i \in 1..Len(actions) : actions[i] = type
            THEN /\ actions' = actions
                 /\ lastRegistration'.outcome \in {"HyperagentError", "Error"}
            ELSE actions' = Append(actions, type)]_regVars

\* A new type was registered, then registering it again and registering
\* "complete" were both rejected.
C35_Witness ==
  /\ registrations = 3
  /\ actions = Append(DEFAULT_ACTIONS, "mcpTool")
  /\ lastRegistration.type = "complete"
  /\ lastRegistration.outcome = "HyperagentError"

(***************************************************************************)
(* Claims about the element index and the XPath map                        *)
(***************************************************************************)

\* Passes 2 to 6 of buildHierarchicalTree for AX nodes that have no parentId
\* and a role other than generic and none: every node kept by pass 1 is a
\* root, cleaning returns it as it is, and collectNodes stores it under its
\* EncodedId.  These are the keys of idToElement.
idToElementKeys == {nodeMap[n] : n \in DOMAIN nodeMap} \ {NoEncodedId}

C37_ControlCallsChangeStatusAsStated ==
  [][lastCall' \in ControlCalls =>
       /\ lastCall' = "pause" =>
            taskStatus' = IF taskStatus = RUNNING THEN PAUSED ELSE taskStatus
       /\ lastCall' = "resume" =>
            taskStatus' = IF taskStatus = PAUSED THEN RUNNING ELSE taskStatus
       /\ lastCall' = "cancel" =>
            taskStatus' = IF taskStatus = COMPLETED THEN COMPLETED
                          ELSE CANCELLED
       /\ taskStatus = COMPLETED => taskStatus' = COMPLETED]_taskVars

\* cancel() was called on a task whose complete action had run, and the
\* status is still COMPLETED.
C37_Witness ==
  /\ lastCall = "cancel"
  /\ taskStatus = COMPLETED
  /\ taskPc = "action"

BoundEntries == {i \in MatchInfos : boundFrame[i] # NoHandle}

\* C39: no live frame handle is bound to two frameMap entries, and the live
\* parent of a bound handle is the handle bound to the entry's parent index,
\* the main frame when that index is 0.
C39_BindsOncePerHandleUnderBoundParent ==
  /\ \A i, j \in BoundEntries : boundFrame[i] = boundFrame[j] => i = j
  /\ \A i \in BoundEntries :
       LET parentIdx == matchFrameMap[i].parentFrameIndex
       IN  /\ parentIdx # 0 => parentIdx \in BoundEntries
           /\ allFrames[boundFrame[i]].parent =
                IF parentIdx = 0 THEN MainHandle ELSE boundFrame[parentIdx]

\* Both entries are bound, the second below the first, and the handle of
\* the first was passed over as matched when the second was matched.
C39_Witness ==
  /\ matchPc = "returned"
  /\ BoundEntries = MatchInfos
  /\ matchFrameMap[2].parentFrameIndex = 1
  /\ boundFrame[1] = 1
  /\ boundFrame[2] = 2
  /\ verifyFrameMatch(allFrames[1].attrs, matchFrameMap[2].attrs)

(***************************************************************************)
(* Claims about the quiet timer of waitForSettledDOM                       *)
(***************************************************************************)

\* C40: while the call waits for the page to settle (the promise is not
\* resolved), in every state an event handler or a sweep leaves behind the
\* quiet timer is armed exactly when the in-flight set is empty.
C40_QuietTimerArmedIffIdle ==
  pc = "waiting" => (quietTimer # NoTimer <=> inflight = {})

\* The call still waits with the timer armed anew: the set became empty
\* after the watching had started, and a document request that only the
\* sweep can have removed has left its docByFrame entry behind.
C40_Witness ==
  /\ pc = "waiting"
  /\ inflight = {}
  /\ quietTimer # NoTimer
  /\ emptySince > MaxLoadWaitTicks
  /\ \E f \in DOMAIN docByFrame : docByFrame[f] \notin DOMAIN meta

====
